---- MODULE Spec2Model ----
(***************************************************************************)
(* Model of the single-file source rewriting passes of                     *)
(* wexample_filestate_python: usage-driven import relocation, class        *)
(* attribute ordering, module-level function ordering and the option       *)
(* driver that turns a pass result into a proposed write.                  *)
(*                                                                         *)
(* A source file is modelled by its concrete syntax tree: a sequence of    *)
(* statement nodes, each with its leading lines (blank / comment), and a   *)
(* nested body for class and function definitions.                         *)
(***************************************************************************)
EXTENDS Integers, Sequences, FiniteSets, TLC

VARIABLES file, before, lastOp, runs, raised, proposed, enabled, args

vars == <<file, before, lastOp, runs, raised, proposed, enabled, args>>

(***************************************************************************)
(* Bounds of the model.                                                    *)
(***************************************************************************)
MaxRuns == 2
MaxAttrs == 3
MaxTop == 3

(***************************************************************************)
(* Strings.  Python compares str by code point; StrOrder lists every       *)
(* identifier the model sorts, in code point order.                        *)
(***************************************************************************)
StrOrder ==
    <<"", "Config", "List", "T", "Thing", "Zed", "__all__", "__slots__", "__version__", "_f", "_g",
      "a", "alpha", "b", "beta", "c", "f", "g", "lib", "make", "name", "os", "pkg", "typing", "util", "zeta">>

RECURSIVE PosFrom(_, _)
PosFrom(s, i) ==
    IF i > Len(StrOrder) THEN 0
    ELSE IF StrOrder[i] = s THEN i ELSE PosFrom(s, i + 1)

StrRank(s) == PosFrom(s, 1)

StrLess(a, b) == StrRank(a) < StrRank(b)

\* str.lower() on the identifiers of the model
Lower(s) ==
    CASE s = "B" -> "b"
      [] s = "A" -> "a"
      [] s = "_B" -> "_b"
      [] s = "F" -> "f"
      [] s = "G" -> "g"
      [] OTHER -> s

\* str.lstrip("_") on the identifiers of the model
LStripUnderscore(s) ==
    CASE s = "_a" -> "a"
      [] s = "_b" -> "b"
      [] s = "_B" -> "B"
      [] s = "_c" -> "c"
      [] s = "_f" -> "f"
      [] s = "_g" -> "g"
      [] s = "__slots__" -> "slots__"
      [] OTHER -> s

\* str.startswith("_")
StartsWithUnderscore(s) ==
    \/ s \in {"_a", "_b", "_B", "_c", "_f", "_g", "__slots__", "__all__", "__version__"}
    \/ s \in {"__new__", "__init__", "__repr__", "__str__"}

\* str.isupper(): at least one cased character and no lowercase one
IsUpper(s) == s \in {"A", "B", "_B", "F", "G", "T", "MAX"}

\* s[:1].isupper()
UpperInitial(s) == s \in {"A", "B", "F", "G", "T", "Thing", "List", "Zed", "Config", "MAX"}

(***************************************************************************)
(* Syntax tree nodes.                                                      *)
(*   kind    "doc" | "from" | "import" | "tc" | "main" | "stmt" | "func"   *)
(*           | "class"                                                     *)
(*   name    definition name, assignment target, or the module a "from"    *)
(*           statement imports from                                        *)
(*   lead    leading lines, each "blank" or "comment"                      *)
(*   aliases the aliases of an import statement: [name, asname]            *)
(*   how     shape of a simple statement                                   *)
(*   ref     the identifier a simple statement refers to                   *)
(*   sig     header usages of a definition: [how, ref] records             *)
(*   body    nested statements                                             *)
(***************************************************************************)
Node(kind, name) ==
    [kind |-> kind, name |-> name, lead |-> <<>>, aliases |-> <<>>,
     how |-> "", ref |-> "", sig |-> {}, body |-> <<>>]

Alias(name, asname) == [name |-> name, asname |-> asname]

FromImport(mod, aliases) == [Node("from", mod) EXCEPT !.aliases = aliases]

BareImport(aliases) == [Node("import", "") EXCEPT !.aliases = aliases]

Stmt(how, target, ref) == [Node("stmt", target) EXCEPT !.how = how, !.ref = ref]

Def(kind, name, sig, body) == [Node(kind, name) EXCEPT !.sig = sig, !.body = body]

WithLead(n, lead) == [n EXCEPT !.lead = lead]

HasBlank(lead) == \E i \in 1..Len(lead) : lead[i] = "blank"

SourceFile(parses, body) == [parses |-> parses, body |-> body]

(***************************************************************************)
(* Sequence helpers.                                                       *)
(***************************************************************************)
SeqRange(s) == {s[i] : i \in 1..Len(s)}

RECURSIVE SelectNodes(_, _)
SelectNodes(s, keep) ==
    IF s = <<>> THEN <<>>
    ELSE (IF Head(s) \in keep THEN <<Head(s)>> ELSE <<>>) \o SelectNodes(Tail(s), keep)

Slice(s, from, to) == IF to < from THEN <<>> ELSE SubSeq(s, from, to)

InsertAt(s, at, xs) == Slice(s, 1, at) \o xs \o Slice(s, at + 1, Len(s))

\* the function f on 1..n as a sequence
RECURSIVE AsSeqFrom(_, _, _)
AsSeqFrom(f, i, n) == IF i > n THEN <<>> ELSE <<f[i]>> \o AsSeqFrom(f, i + 1, n)

(***************************************************************************)
(* Class attribute ordering (utils/python_class_attributes_utils.py).      *)
(***************************************************************************)
SPECIAL_ATTR_NAMES == {"__slots__", "__match_args__"}

SPECIAL_INNER_CLASS_NAMES == {"Config"}

\* A simple statement line holding one Assign / AnnAssign to a Name
IsNameAssignment(n) == n.kind = "stmt" /\ n.how \in {"assign", "annvar", "annval"}

IsAttributeStatement(n) ==
    \/ IsNameAssignment(n) /\ ~IsUpper(n.name)
    \/ n.kind = "class"

\* The statements of an indented block are never EmptyLine nodes: blank
\* lines live in the leading lines of the statement that follows them.
IsBlankSeparator(n) == n.kind = "emptyline"

IsSpecialAttribute(n) ==
    \/ IsNameAssignment(n) /\ n.name \in SPECIAL_ATTR_NAMES
    \/ n.kind = "class" /\ n.name \in (SPECIAL_ATTR_NAMES \cup SPECIAL_INNER_CLASS_NAMES)

IsDataclass(classdef) ==
    \E d \in classdef.sig : d.how = "decorator" /\ d.ref = "dataclass"

IsDataclassField(n) ==
    n.kind = "stmt" /\ n.how \in {"annvar", "annval"} /\ ~IsUpper(n.name)

DataclassFieldHasDefault(n) == IsDataclassField(n) /\ n.how = "annval"

IsPublic(name) == ~StartsWithUnderscore(name)

\* _sort_key: (name.lstrip("_").lower(), name.startswith("_"))
SortKey(name) ==
    <<StrRank(Lower(LStripUnderscore(name))), IF StartsWithUnderscore(name) THEN 1 ELSE 0>>

AttrCategory(n, dataclass_mode) ==
    IF IsSpecialAttribute(n) THEN 0
    ELSE IF dataclass_mode
         THEN IF IsDataclassField(n)
              THEN (IF DataclassFieldHasDefault(n) THEN 2 ELSE 1)
              ELSE (IF IsPublic(n.name) THEN 3 ELSE 4)
         ELSE (IF IsPublic(n.name) THEN 1 ELSE 2)

AttrKey(n, dataclass_mode) == <<AttrCategory(n, dataclass_mode)>> \o SortKey(n.name)

\* tuple comparison k1 <= k2 on keys of equal length
RECURSIVE KeyLeq(_, _)
KeyLeq(k1, k2) ==
    IF k1 = <<>> THEN TRUE
    ELSE IF Head(k1) < Head(k2) THEN TRUE
    ELSE IF Head(k1) > Head(k2) THEN FALSE
    ELSE KeyLeq(Tail(k1), Tail(k2))

\* insert x behind every element whose key is <= key(x): sorted() is stable
RECURSIVE InsertAttr(_, _, _)
InsertAttr(sorted, x, dc) ==
    IF sorted = <<>> THEN <<x>>
    ELSE IF KeyLeq(AttrKey(Head(sorted), dc), AttrKey(x, dc))
         THEN <<Head(sorted)>> \o InsertAttr(Tail(sorted), x, dc)
         ELSE <<x>> \o sorted

RECURSIVE SortedAttrs(_, _)
SortedAttrs(nodes, dc) ==
    IF nodes = <<>> THEN <<>>
    ELSE InsertAttr(SortedAttrs(SubSeq(nodes, 1, Len(nodes) - 1), dc), nodes[Len(nodes)], dc)

CommentLinesOnly(lead) == SelectNodes(lead, {"comment"})

reorder_attribute_block(nodes, dataclass_mode) ==
    LET sorted_nodes == SortedAttrs(nodes, dataclass_mode)
    IN  IF sorted_nodes = nodes THEN nodes
        ELSE AsSeqFrom([i \in 1..Len(sorted_nodes) |->
                 IF i = 1 THEN sorted_nodes[i]
                 ELSE IF sorted_nodes[i].kind = "stmt"
                      THEN [sorted_nodes[i] EXCEPT !.lead = CommentLinesOnly(@)]
                      ELSE sorted_nodes[i]], 1, Len(sorted_nodes))

\* first index behind the block that starts at i
RECURSIVE AttrBlockEnd(_, _, _)
AttrBlockEnd(body, i, j) ==
    IF j > Len(body) THEN j
    ELSE IF ~IsAttributeStatement(body[j]) THEN j
    ELSE IF j # i /\ (\/ body[j].kind = "stmt" /\ HasBlank(body[j].lead)
                      \/ IsBlankSeparator(body[j - 1])) THEN j
    ELSE AttrBlockEnd(body, i, j + 1)

\* the blocks as <<start, end exclusive>> pairs
RECURSIVE AttrBlocksFrom(_, _)
AttrBlocksFrom(body, i) ==
    IF i > Len(body) THEN <<>>
    ELSE IF IsAttributeStatement(body[i])
         THEN LET j == AttrBlockEnd(body, i, i)
              IN  <<(<<i, j>>)>> \o AttrBlocksFrom(body, j)
         ELSE AttrBlocksFrom(body, i + 1)

find_attribute_blocks_in_class(classdef) == AttrBlocksFrom(classdef.body, 1)

RECURSIVE ApplyAttrBlocks(_, _, _)
ApplyAttrBlocks(body, blocks, dc) ==
    IF blocks = <<>> THEN body
    ELSE LET b == blocks[Len(blocks)]
             new_nodes == reorder_attribute_block(SubSeq(body, b[1], b[2] - 1), dc)
         IN  ApplyAttrBlocks(
                 Slice(body, 1, b[1] - 1) \o new_nodes \o Slice(body, b[2], Len(body)),
                 SubSeq(blocks, 1, Len(blocks) - 1), dc)

reorder_class_attributes(classdef) ==
    [classdef EXCEPT !.body =
        ApplyAttrBlocks(@, find_attribute_blocks_in_class(classdef), IsDataclass(classdef))]

\* only the classes of the module body are visited, not nested ones
ensure_order_class_attributes_in_module(module_body) ==
    AsSeqFrom([i \in 1..Len(module_body) |->
        IF module_body[i].kind = "class"
        THEN reorder_class_attributes(module_body[i])
        ELSE module_body[i]], 1, Len(module_body))
(***************************************************************************)
(* Passes as content options (option/python/*_option.py) and the write     *)
(* decision of AbstractPythonFileContentOption.create_required_operation.  *)
(* A pass result is [text, raised]: cst.parse_module raises                *)
(* ParserSyntaxError on malformed input and no pass catches it.            *)
(***************************************************************************)
Returned(text) == [text |-> text, raised |-> FALSE]

Raised(text) == [text |-> text, raised |-> TRUE]

\* cst.parse_module(src)
ParseModule(f) == IF f.parses THEN Returned(f) ELSE Raised(f)

OrderClassAttributesOption(f) ==
    IF ParseModule(f).raised THEN Raised(f)
    ELSE Returned([f EXCEPT !.body = ensure_order_class_attributes_in_module(@)])

\* create_required_operation: a FileWriteOperation exactly when the content changed
WriteProposed(result, current) == ~result.raised /\ result.text # current

\* the constructor arguments of a transformer that is applied on its own
NoArgs == [used_in_B |-> {}, names_to_remove_from_module |-> {}, used_in_C_only |-> {}]

\* one run on the current file, the proposed write applied
RunWith(name, result, a) ==
    /\ runs < MaxRuns
    /\ runs' = runs + 1
    /\ before' = file
    /\ lastOp' = name
    /\ raised' = result.raised
    /\ proposed' = WriteProposed(result, file)
    /\ file' = IF WriteProposed(result, file) THEN result.text ELSE file
    /\ args' = a
    /\ UNCHANGED enabled

\* one run of a pass
RunPass(name, result) == RunWith(name, result, NoArgs)

RunOrderClassAttributes == RunPass("order_class_attributes", OrderClassAttributesOption(file))

(***************************************************************************)
(* Module-level function ordering                                          *)
(* (operation/utils/python_functions_utils.py).                            *)
(***************************************************************************)
METADATA_NAMES ==
    {"__all__", "__version__", "__author__", "__email__", "__license__",
     "__copyright__", "__title__", "__description__"}

\* consecutive FunctionDef nodes of one name, as <<start, end exclusive>>
RECURSIVE FuncGroupEnd(_, _, _)
FuncGroupEnd(body, name, j) ==
    IF j <= Len(body) /\ body[j].kind = "func" /\ body[j].name = name
    THEN FuncGroupEnd(body, name, j + 1)
    ELSE j

RECURSIVE FuncGroupsFrom(_, _)
FuncGroupsFrom(body, i) ==
    IF i > Len(body) THEN <<>>
    ELSE IF body[i].kind = "func"
         THEN LET j == FuncGroupEnd(body, body[i].name, i + 1)
              IN  <<[name |-> body[i].name, nodes |-> SubSeq(body, i, j - 1)]>>
                      \o FuncGroupsFrom(body, j)
         ELSE FuncGroupsFrom(body, i + 1)

collect_module_function_groups(body) == FuncGroupsFrom(body, 1)

IsPrivateName(name) == StartsWithUnderscore(name)

\* list.sort(key=lambda g: g.name.lower()) is stable
RECURSIVE InsertGroup(_, _)
InsertGroup(sorted, g) ==
    IF sorted = <<>> THEN <<g>>
    ELSE IF StrRank(Lower(Head(sorted).name)) <= StrRank(Lower(g.name))
         THEN <<Head(sorted)>> \o InsertGroup(Tail(sorted), g)
         ELSE <<g>> \o sorted

RECURSIVE SortGroupsByName(_)
SortGroupsByName(groups) ==
    IF groups = <<>> THEN <<>>
    ELSE InsertGroup(SortGroupsByName(SubSeq(groups, 1, Len(groups) - 1)),
                     groups[Len(groups)])

RECURSIVE FilterGroups(_, _)
FilterGroups(groups, private) ==
    IF groups = <<>> THEN <<>>
    ELSE (IF IsPrivateName(Head(groups).name) = private THEN <<Head(groups)>> ELSE <<>>)
             \o FilterGroups(Tail(groups), private)

\* variant: the private groups come first
sort_function_groups_private_first(groups) ==
    SortGroupsByName(FilterGroups(groups, TRUE))
        \o SortGroupsByName(FilterGroups(groups, FALSE))

sort_function_groups(groups) ==
    SortGroupsByName(FilterGroups(groups, FALSE))
        \o SortGroupsByName(FilterGroups(groups, TRUE))

RECURSIVE WithoutFunctions(_)
WithoutFunctions(body) ==
    IF body = <<>> THEN <<>>
    ELSE (IF Head(body).kind = "func" THEN <<>> ELSE <<Head(body)>>)
             \o WithoutFunctions(Tail(body))

IsMainGuard(n) == n.kind = "main"

IsDocstringNode(n, idx) == idx = 1 /\ n.kind = "doc"

IsImportLine(n) == n.kind \in {"from", "import"}

IsTypeCheckingIf(n) == n.kind = "tc"

IsMetadataOrUpperConst(n) ==
    IsNameAssignment(n) /\ (n.name \in METADATA_NAMES \/ IsUpper(n.name))

IsTypingTypeAlias(n) == n.kind = "stmt" /\ n.how = "typealias"

IsDeclaration(n, idx) ==
    \/ IsDocstringNode(n, idx)
    \/ IsImportLine(n)
    \/ IsTypeCheckingIf(n)
    \/ IsMetadataOrUpperConst(n)
    \/ IsTypingTypeAlias(n)

IsFunctionBarrier(n, idx) == n.kind = "class" \/ IsMainGuard(n) \/ ~IsDeclaration(n, idx)

\* number of statements in front of the first barrier (the 0-based insert_at)
RECURSIVE FirstBarrier(_, _)
FirstBarrier(body, idx) ==
    IF idx > Len(body) THEN Len(body)
    ELSE IF IsFunctionBarrier(body[idx], idx) THEN idx - 1
    ELSE FirstBarrier(body, idx + 1)

RECURSIVE FirstMainGuard(_, _)
FirstMainGuard(body, idx) ==
    IF idx > Len(body) THEN -1
    ELSE IF IsMainGuard(body[idx]) THEN idx - 1
    ELSE FirstMainGuard(body, idx + 1)

FunctionInsertAt(new_body) ==
    LET insert_at == FirstBarrier(new_body, 1)
        main_guard_index == FirstMainGuard(new_body, 1)
    IN  IF main_guard_index # -1 /\ insert_at > main_guard_index
        THEN main_guard_index
        ELSE insert_at

\* the first function of a group keeps its leading lines, the others lose theirs
RebuiltGroup(g) ==
    AsSeqFrom([k \in 1..Len(g.nodes) |->
                  IF k = 1 THEN g.nodes[k] ELSE [g.nodes[k] EXCEPT !.lead = <<>>]],
              1, Len(g.nodes))

RECURSIVE RebuiltFunctions(_)
RebuiltFunctions(groups) ==
    IF groups = <<>> THEN <<>>
    ELSE RebuiltGroup(Head(groups)) \o RebuiltFunctions(Tail(groups))

reorder_module_functions(body) ==
    LET groups == collect_module_function_groups(body)
        new_body == WithoutFunctions(body)
    IN  IF groups = <<>> THEN body
        ELSE InsertAt(new_body, FunctionInsertAt(new_body),
                      RebuiltFunctions(sort_function_groups(groups)))

\* preview_source_change / _apply_content_change of the pass
OrderModuleFunctionsOption(f) ==
    IF ParseModule(f).raised THEN Raised(f)
    ELSE Returned([f EXCEPT !.body = reorder_module_functions(@)])

RunOrderModuleFunctions == RunPass("order_module_functions", OrderModuleFunctionsOption(file))

(***************************************************************************)
(* Import relocation: import index                                         *)
(* (utils/relocate_imports/python_parser_import_index.py).                 *)
(* None is written "": a binding whose mod is "" is module-pinned.         *)
(***************************************************************************)
\* the statements of a tree in document order
RECURSIVE Flatten(_)
Flatten(body) ==
    IF body = <<>> THEN <<>>
    ELSE <<Head(body)>> \o Flatten(Head(body).body) \o Flatten(Tail(body))

LocalName(alias) == IF alias.asname # "" THEN alias.asname ELSE alias.name

IndexPut(idx, name, binding) ==
    [n \in DOMAIN idx \cup {name} |-> IF n = name THEN binding ELSE idx[n]]

RECURSIVE IndexAliases(_, _, _, _)
IndexAliases(idx, aliases, mod, is_from) ==
    IF aliases = <<>> THEN idx
    ELSE LET a == Head(aliases)
             binding == IF is_from THEN [mod |-> mod, asname |-> a.asname]
                        ELSE [mod |-> "", asname |-> ""]
         IN  IndexAliases(IndexPut(idx, LocalName(a), binding), Tail(aliases), mod, is_from)

\* visit_Import / visit_ImportFrom: a later import of a name overwrites an earlier one
RECURSIVE IndexStatements(_, _)
IndexStatements(idx, stmts) ==
    IF stmts = <<>> THEN idx
    ELSE LET n == Head(stmts)
         IN  IF n.kind = "import"
             THEN IndexStatements(IndexAliases(idx, n.aliases, "", FALSE), Tail(stmts))
             ELSE IF n.kind = "from" /\ n.name # "__future__"
             THEN IndexStatements(IndexAliases(idx, n.aliases, n.name, TRUE), Tail(stmts))
             ELSE IndexStatements(idx, Tail(stmts))

EmptyIndex == [n \in {} |-> [mod |-> "", asname |-> ""]]

PythonParserImportIndex(body) == IndexStatements(EmptyIndex, Flatten(body))

ResolvedModule(idx, name) == IF name \in DOMAIN idx THEN idx[name].mod ELSE ""

(***************************************************************************)
(* Import relocation: usage collector                                      *)
(* (utils/relocate_imports/python_usage_collector.py).                     *)
(* A function key is the sequence of the dot-separated segments of the     *)
(* qualified name.                                                         *)
(***************************************************************************)
NoUsage == [need |-> {}, B |-> {}, C |-> {}, cast |-> {}]

Merge(u, v) ==
    [need |-> u.need \cup v.need, B |-> u.B \cup v.B,
     C |-> u.C \cup v.C, cast |-> u.cast \cup v.cast]

RECURSIVE MergeAll(_)
MergeAll(us) == IF us = <<>> THEN NoUsage ELSE Merge(Head(us), MergeAll(Tail(us)))

RECURSIVE ConcatAll(_)
ConcatAll(ss) == IF ss = <<>> THEN <<>> ELSE Head(ss) \o ConcatAll(Tail(ss))

\* _qualified_func_name: class_stack + func_stack + [base], the function
\* stack holding the qualified names of the enclosing functions
QualifiedFuncName(class_stack, func_stack, base) ==
    class_stack \o ConcatAll(func_stack) \o <<base>>

UNRELOCATABLE_MODULES == {"", "typing", "collections", "collections.abc"}

\* visit_Name
VisitName(idx, func_stack, val) ==
    IF func_stack = <<>> \/ val = "cast" \/ val \notin DOMAIN idx THEN NoUsage
    ELSE IF ResolvedModule(idx, val) \in UNRELOCATABLE_MODULES
         THEN (IF ResolvedModule(idx, val) = "" THEN [NoUsage EXCEPT !.B = {val}] ELSE NoUsage)
         ELSE [NoUsage EXCEPT !.need = {<<func_stack[Len(func_stack)], val>>}]

\* visit_Call on a constructor call Name()
VisitConstructorCall(idx, func_stack, callee) ==
    IF func_stack # <<>> /\ callee \in DOMAIN idx /\ UpperInitial(callee)
    THEN [NoUsage EXCEPT !.need = {<<func_stack[Len(func_stack)], callee>>}]
    ELSE NoUsage

\* visit_Call on cast(<type>, value): the names of the type expression
VisitCastCall(idx, func_stack, type_name) ==
    IF func_stack # <<>> /\ type_name \in DOMAIN idx
    THEN [NoUsage EXCEPT !.cast = {type_name},
                         !.need = {<<func_stack[Len(func_stack)], type_name>>}]
    ELSE NoUsage

\* _record_type_names / _walk_expr_for_names on a single name
RecordName(idx, name, bucket) ==
    IF name \in DOMAIN idx
    THEN (CASE bucket = "B" -> [NoUsage EXCEPT !.B = {name}]
            [] bucket = "C" -> [NoUsage EXCEPT !.C = {name}])
    ELSE NoUsage

\* the Name nodes of an import statement: module, imported names, aliases
ImportStatementNames(n) ==
    ({n.name} \cup {n.aliases[i].name : i \in 1..Len(n.aliases)}
        \cup {n.aliases[i].asname : i \in 1..Len(n.aliases)}) \ {""}

SetToUsage(S, Op(_)) ==
    [need |-> UNION {Op(x).need : x \in S}, B |-> UNION {Op(x).B : x \in S},
     C |-> UNION {Op(x).C : x \in S}, cast |-> UNION {Op(x).cast : x \in S}]

\* header of a function: annotations, defaults, decorators (visit_FunctionDef,
\* visit_Param, visit_Parameters, visit_Decorator); the function is on the stack
FunctionHeaderUsage(idx, func_stack, sig) ==
    LET One(u) ==
            CASE u.how \in {"annret", "annparam"} -> RecordName(idx, u.ref, "C")
              [] u.how = "default" ->
                    Merge([NoUsage EXCEPT !.B = {u.ref}], VisitName(idx, func_stack, u.ref))
              [] u.how = "decorator" -> RecordName(idx, u.ref, "B")
              [] OTHER -> NoUsage
    IN  SetToUsage(sig, One)

\* header of a class: bases and decorators (visit_ClassDef, visit_Decorator)
ClassHeaderUsage(idx, func_stack, sig) ==
    LET One(u) ==
            CASE u.how = "base" ->
                    Merge(RecordName(idx, u.ref, "B"), VisitName(idx, func_stack, u.ref))
              [] u.how = "decorator" -> RecordName(idx, u.ref, "B")
              [] OTHER -> NoUsage
    IN  SetToUsage(sig, One)

\* a simple statement (visit_AnnAssign, visit_Assign, visit_Call, visit_Arg)
StatementUsage(idx, class_stack, func_stack, n) ==
    CASE n.how = "call" ->
            Merge(VisitConstructorCall(idx, func_stack, n.ref),
                  VisitName(idx, func_stack, n.ref))
      [] n.how = "name" -> VisitName(idx, func_stack, n.ref)
      [] n.how = "cast" ->
            Merge(VisitCastCall(idx, func_stack, n.ref), VisitName(idx, func_stack, n.ref))
      [] n.how = "caststr" -> VisitCastCall(idx, func_stack, n.ref)
      [] n.how = "annvar" ->
            Merge(RecordName(idx, n.ref, "C"), VisitName(idx, func_stack, n.name))
      [] n.how = "annval" ->
            MergeAll(<<RecordName(idx, n.ref, "C"),
                       IF class_stack # <<>> THEN RecordName(idx, n.ref, "B") ELSE NoUsage,
                       VisitName(idx, func_stack, n.name),
                       VisitConstructorCall(idx, func_stack, n.ref),
                       VisitName(idx, func_stack, n.ref)>>)
      [] n.how = "assign" ->
            MergeAll(<<IF class_stack # <<>> THEN RecordName(idx, n.ref, "B") ELSE NoUsage,
                       VisitName(idx, func_stack, n.name),
                       VisitName(idx, func_stack, n.ref)>>)
      [] OTHER -> NoUsage

RECURSIVE CollectUsage(_, _, _, _)
CollectUsage(idx, body, class_stack, func_stack) ==
    IF body = <<>> THEN NoUsage
    ELSE LET n == Head(body)
             here ==
                 CASE n.kind \in {"from", "import"} ->
                         LET V(x) == VisitName(idx, func_stack, x)
                         IN  SetToUsage(ImportStatementNames(n), V)
                   [] n.kind = "tc" ->
                         Merge(VisitName(idx, func_stack, "TYPE_CHECKING"),
                               CollectUsage(idx, n.body, class_stack, func_stack))
                   [] n.kind = "main" ->
                         CollectUsage(idx, n.body, class_stack, func_stack)
                   [] n.kind = "stmt" -> StatementUsage(idx, class_stack, func_stack, n)
                   [] n.kind = "func" ->
                         LET inner == Append(func_stack,
                                             QualifiedFuncName(class_stack, func_stack, n.name))
                         IN  MergeAll(<<FunctionHeaderUsage(idx, inner, n.sig),
                                        VisitName(idx, inner, n.name),
                                        CollectUsage(idx, n.body, class_stack, inner)>>)
                   [] n.kind = "class" ->
                         MergeAll(<<ClassHeaderUsage(idx, func_stack, n.sig),
                                    VisitName(idx, func_stack, n.name),
                                    CollectUsage(idx, n.body, Append(class_stack, n.name),
                                                 func_stack)>>)
                   [] OTHER -> NoUsage
         IN  Merge(here, CollectUsage(idx, Tail(body), class_stack, func_stack))

PythonUsageCollector(idx, body) == CollectUsage(idx, body, <<>>, <<>>)

(***************************************************************************)
(* Import relocation: runtime symbol collector                             *)
(* (utils/relocate_imports/python_runtime_symbol_collector.py): every      *)
(* Name node outside an annotation, those of import statements included.   *)
(***************************************************************************)
HeaderRuntimeNames(n) ==
    {n.name} \cup {u.ref : u \in {v \in n.sig : v.how \in {"default", "decorator", "base"}}}

StatementRuntimeNames(n) ==
    CASE n.how \in {"call", "name"} -> {n.ref}
      [] n.how = "cast" -> {"cast", n.ref}
      [] n.how = "caststr" -> {"cast"}
      [] n.how = "annvar" -> {n.name}
      [] n.how \in {"annval", "assign"} -> {n.name, n.ref}
      [] OTHER -> {}

NodeRuntimeNames(n) ==
    CASE n.kind \in {"from", "import"} -> ImportStatementNames(n)
      [] n.kind = "tc" -> {"TYPE_CHECKING"}
      [] n.kind = "main" -> {"__name__"}
      [] n.kind \in {"func", "class"} -> HeaderRuntimeNames(n)
      [] n.kind = "stmt" -> StatementRuntimeNames(n)
      [] OTHER -> {}

\* variant: the Name nodes of import statements are not counted as uses
RuntimeSymbolsOutsideImports(imported_value_names, body) ==
    LET nodes == Flatten(body)
        uses == {i \in 1..Len(nodes) : nodes[i].kind \notin {"from", "import"}}
    IN  UNION {NodeRuntimeNames(nodes[i]) : i \in uses} \cap imported_value_names

PythonRuntimeSymbolCollector(imported_value_names, body) ==
    LET nodes == Flatten(body)
    IN  UNION {NodeRuntimeNames(nodes[i]) : i \in 1..Len(nodes)} \cap imported_value_names

(***************************************************************************)
(* Import relocation: category resolution                                  *)
(* (option/python/relocate_imports_option.py, _apply_content_change).      *)
(***************************************************************************)
AliasLocalNames(n) == {LocalName(n.aliases[i]) : i \in 1..Len(n.aliases)}

\* _LocalImportNameCollector: names from-imported inside any function
RECURSIVE LocalImportNames(_, _)
LocalImportNames(body, in_function) ==
    IF body = <<>> THEN {}
    ELSE LET n == Head(body)
             here == IF n.kind = "from" /\ in_function THEN AliasLocalNames(n) ELSE {}
             below == LocalImportNames(n.body, in_function \/ n.kind = "func")
         IN  here \cup below \cup LocalImportNames(Tail(body), in_function)

RuntimeLocalAll(usage) == {p[2] : p \in usage.need}

RuntimeLocalFinal(usage) == RuntimeLocalAll(usage) \ usage.B

TypeOnlyNames(usage, runtime_used_anywhere) ==
    (((usage.C \ RuntimeLocalFinal(usage)) \ usage.B) \ usage.cast) \ runtime_used_anywhere

TypeOnlyForBlock(usage, body) == (usage.C \ usage.B) \ LocalImportNames(body, FALSE)

\* variant: the names found in use at runtime anywhere are not held back
NamesToRemoveIgnoringRuntimeUse(usage, runtime_used_anywhere) ==
    RuntimeLocalFinal(usage)
        \cup (((usage.C \ RuntimeLocalFinal(usage)) \ usage.B) \ usage.cast)
        \cup (usage.cast \ usage.B)

NamesToRemoveFromModule(usage, runtime_used_anywhere) ==
    (RuntimeLocalFinal(usage) \ runtime_used_anywhere)
        \cup TypeOnlyNames(usage, runtime_used_anywhere)
        \cup ((usage.cast \ usage.B) \ runtime_used_anywhere)

\* variant: the names still imported at module level are not held back
UsedInCOnlyFinalWithoutKeptImports(usage, body, imported_value_names, names_to_remove_from_module) ==
    TypeOnlyForBlock(usage, body)

UsedInCOnlyFinal(usage, body, imported_value_names, names_to_remove_from_module) ==
    TypeOnlyForBlock(usage, body) \ (imported_value_names \ names_to_remove_from_module)

(***************************************************************************)
(* Import relocation: module-level rewriter                                *)
(* (utils/relocate_imports/python_import_rewriter.py).                     *)
(***************************************************************************)
RECURSIVE SortedNames(_)
SortedNames(S) ==
    IF S = {} THEN <<>>
    ELSE LET m == CHOOSE x \in S : \A y \in S : x = y \/ StrLess(x, y)
         IN  <<m>> \o SortedNames(S \ {m})

\* leave_Import / leave_ImportFrom: the aliases of a module-level import that stay
KeptAliases(n, inside_type_checking, used_in_B, names_to_remove_from_module) ==
    LET Keep(a) ==
            \/ n.kind = "from" /\ n.name = "typing" /\ a.name # "TYPE_CHECKING"
            \/ LocalName(a) \in used_in_B
            \/ LocalName(a) \notin names_to_remove_from_module
    IN  IF n.kind = "from" /\ inside_type_checking THEN n.aliases
        ELSE SelectNodes(n.aliases, {a \in SeqRange(n.aliases) : Keep(a)})

RECURSIVE RewriteImports(_, _, _, _, _)
RewriteImports(body, inside_class_func, inside_type_checking, used_in_B, to_remove) ==
    IF body = <<>> THEN <<>>
    ELSE LET n == Head(body)
             rest == RewriteImports(Tail(body), inside_class_func, inside_type_checking,
                                    used_in_B, to_remove)
         IN  IF n.kind \in {"from", "import"}
             THEN (IF inside_class_func THEN <<n>> \o rest
                   ELSE LET kept == KeptAliases(n, inside_type_checking, used_in_B, to_remove)
                        IN  IF kept = <<>> THEN rest
                            ELSE <<[n EXCEPT !.aliases = kept]>> \o rest)
             ELSE <<[n EXCEPT !.body =
                        RewriteImports(n.body,
                                       inside_class_func \/ n.kind \in {"func", "class"},
                                       n.kind = "tc", used_in_B, to_remove)]>> \o rest

\* leave_SimpleStatementLine: `from typing import TYPE_CHECKING` seen anywhere
FoundTypeCheckingImport(body) ==
    LET nodes == Flatten(body)
    IN  \E i \in 1..Len(nodes) :
            /\ nodes[i].kind = "from"
            /\ nodes[i].name = "typing"
            /\ \E j \in 1..Len(nodes[i].aliases) : nodes[i].aliases[j].name = "TYPE_CHECKING"

\* (module, name) pairs of the from-imports directly in a block
DirectImportPairs(block) ==
    UNION {{<<block[i].name, block[i].aliases[j].name>> : j \in 1..Len(block[i].aliases)} :
              i \in {k \in 1..Len(block) : block[k].kind = "from"}}

\* the modules of the names, in the order of their first name in sorted order
RECURSIVE ModulesInOrder(_, _, _)
ModulesInOrder(idx, names, seen) ==
    IF names = <<>> THEN <<>>
    ELSE LET mod == ResolvedModule(idx, Head(names))
         IN  IF mod \in seen THEN ModulesInOrder(idx, Tail(names), seen)
             ELSE <<mod>> \o ModulesInOrder(idx, Tail(names), seen \cup {mod})

NameAliases(names) == AsSeqFrom([i \in 1..Len(names) |-> Alias(names[i], "")], 1, Len(names))

RECURSIVE GuardedImportStatements(_, _, _, _)
GuardedImportStatements(idx, mods, desired, existing_imported) ==
    IF mods = <<>> THEN <<>>
    ELSE LET mod == Head(mods)
             missing == {n \in desired : ResolvedModule(idx, n) = mod
                                          /\ <<mod, n>> \notin existing_imported}
             rest == GuardedImportStatements(idx, Tail(mods), desired, existing_imported)
         IN  IF missing = {} THEN rest
             ELSE <<FromImport(mod, NameAliases(SortedNames(missing)))>> \o rest

FirstIndexOfKind(body, kind) ==
    IF \E i \in 1..Len(body) : body[i].kind = kind
    THEN CHOOSE i \in 1..Len(body) :
            body[i].kind = kind /\ \A j \in 1..(i - 1) : body[j].kind # kind
    ELSE 0

\* how many leading statements the new guarded block goes after: docstring,
\* then __future__ imports, then the run of imports
RECURSIVE SkipWhile(_, _, _)
SkipWhile(body, i, passing) ==
    IF i < Len(body) /\ (i + 1) \in passing THEN SkipWhile(body, i + 1, passing) ELSE i

\* variant: the block goes directly below the docstring
GuardedBlockInsertIndexBelowDocstring(body) == IF body # <<>> /\ body[1].kind = "doc" THEN 1 ELSE 0

GuardedBlockInsertIndex(body) ==
    LET futures == {i \in 1..Len(body) : body[i].kind = "from" /\ body[i].name = "__future__"}
        imports == {i \in 1..Len(body) : body[i].kind \in {"from", "import"}}
        after_doc == IF body # <<>> /\ body[1].kind = "doc" THEN 1 ELSE 0
    IN  SkipWhile(body, SkipWhile(body, after_doc, futures), imports)

\* leave_Module
RewriteModule(original, updated, idx, used_in_C_only) ==
    LET desired == {n \in used_in_C_only : ResolvedModule(idx, n) # "typing"}
        mods == ModulesInOrder(idx, SortedNames(desired), {})
        tc == FirstIndexOfKind(updated, "tc")
        existing_imported == IF tc = 0 THEN {} ELSE DirectImportPairs(updated[tc].body)
        additions == GuardedImportStatements(idx, mods, desired, existing_imported)
        at == GuardedBlockInsertIndex(updated)
        typing_import == IF FoundTypeCheckingImport(updated) THEN <<>>
                         ELSE <<FromImport("typing", <<Alias("TYPE_CHECKING", "")>>)>>
    IN  IF used_in_C_only = {} THEN updated
        ELSE IF tc # 0
        THEN (IF additions = <<>> THEN original
              ELSE [updated EXCEPT ![tc].body = @ \o additions])
        ELSE IF additions = <<>> THEN updated
        ELSE InsertAt(updated, at, typing_import \o <<Def("tc", "", {}, additions)>>)

PythonImportRewriter(body, idx, used_in_B, names_to_remove_from_module, used_in_C_only) ==
    RewriteModule(body,
                  RewriteImports(body, FALSE, FALSE, used_in_B, names_to_remove_from_module),
                  idx, used_in_C_only)

(***************************************************************************)
(* Import relocation: local import injection                               *)
(* (utils/relocate_imports/python_localize_runtime_imports.py).            *)
(***************************************************************************)
\* _build_local_imports: the (module, name) pairs wanted by a qualified name
BuildLocalPairs(idx, need, skip_local_names, func_qname) ==
    {<<ResolvedModule(idx, p[2]), p[2]>> :
        p \in {q \in need : /\ q[1] = func_qname
                            /\ q[2] \notin skip_local_names
                            /\ ResolvedModule(idx, q[2]) \notin {"", "typing"}}}

\* _collect_current_pairs: the from-imports anywhere inside the function
CurrentPairs(fn) ==
    LET nodes == Flatten(fn.body)
    IN  UNION {{<<nodes[i].name, nodes[i].aliases[j].name>> : j \in 1..Len(nodes[i].aliases)} :
                  i \in {k \in 1..Len(nodes) : nodes[k].kind = "from"}}

\* _build_import_statements_from_pairs: one statement per module, the modules
\* in the iteration order of a set of tuples, which the run does not fix
RECURSIVE ImportStatementsFromPairs(_, _)
ImportStatementsFromPairs(pairs, mods) ==
    IF mods = <<>> THEN <<>>
    ELSE <<FromImport(Head(mods),
                      NameAliases(SortedNames({p[2] : p \in {q \in pairs : q[1] = Head(mods)}})))>>
         \o ImportStatementsFromPairs(pairs, Tail(mods))

Reversed(s) == AsSeqFrom([i \in 1..Len(s) |-> s[Len(s) + 1 - i]], 1, Len(s))

ModuleIterationOrder(pairs, descending) ==
    LET asc == SortedNames({p[1] : p \in pairs})
    IN  IF descending THEN Reversed(asc) ELSE asc

\* leave_FunctionDef; the function stack still holds the function's own name
LeaveFunctionDef(original, updated, idx, need, skip, class_stack, func_stack, descending) ==
    LET func_qname == class_stack \o func_stack \o <<original.name>>
        pairs == BuildLocalPairs(idx, need, skip, func_qname)
        existing == CurrentPairs(updated)
        pairs_to_add == pairs \ existing
        insert_at == IF updated.body # <<>> /\ updated.body[1].kind = "doc" THEN 1 ELSE 0
    IN  IF pairs = {} THEN updated
        ELSE IF pairs \subseteq existing THEN original
        ELSE [updated EXCEPT !.body =
                 InsertAt(@, insert_at,
                          ImportStatementsFromPairs(pairs_to_add,
                              ModuleIterationOrder(pairs_to_add, descending)))]

RECURSIVE LocalizeBody(_, _, _, _, _, _, _)
LocalizeBody(body, idx, need, skip_local_names, class_stack, func_stack, descending) ==
    IF body = <<>> THEN <<>>
    ELSE LET n == Head(body)
             rest == LocalizeBody(Tail(body), idx, need, skip_local_names, class_stack,
                                  func_stack, descending)
             Inner(cs, fs) == [n EXCEPT !.body =
                                  LocalizeBody(n.body, idx, need, skip_local_names, cs, fs,
                                               descending)]
         IN  CASE n.kind = "func" ->
                    <<LeaveFunctionDef(n, Inner(class_stack, Append(func_stack, n.name)),
                                       idx, need, skip_local_names, class_stack,
                                       Append(func_stack, n.name), descending)>> \o rest
               [] n.kind = "class" ->
                    <<Inner(Append(class_stack, n.name), func_stack)>> \o rest
               [] n.kind \in {"tc", "main"} -> <<Inner(class_stack, func_stack)>> \o rest
               [] OTHER -> <<n>> \o rest

PythonLocalizeRuntimeImports(body, idx, need, skip_local_names, descending) ==
    LocalizeBody(body, idx, need, skip_local_names, <<>>, <<>>, descending)

(***************************************************************************)
(* RelocateImportsOption._apply_content_change                             *)
(***************************************************************************)
RelocateBody(body, descending) ==
    LET idx == PythonParserImportIndex(body)
        imported_value_names == DOMAIN idx
        usage == PythonUsageCollector(idx, body)
        runtime_used_anywhere == PythonRuntimeSymbolCollector(imported_value_names, body)
        names_to_remove_from_module == NamesToRemoveFromModule(usage, runtime_used_anywhere)
        used_in_C_only_final ==
            UsedInCOnlyFinal(usage, body, imported_value_names, names_to_remove_from_module)
        rewritten == PythonImportRewriter(body, idx, usage.B, names_to_remove_from_module,
                                          used_in_C_only_final)
    IN  PythonLocalizeRuntimeImports(rewritten, idx, usage.need, usage.B, descending)

RelocateImportsOption(f, descending) ==
    IF ParseModule(f).raised THEN Raised(f)
    ELSE Returned([f EXCEPT !.body = RelocateBody(@, descending)])

RunRelocateImports ==
    \E descending \in BOOLEAN :
        RunPass("relocate_imports", RelocateImportsOption(file, descending))

\* the import rewriter on its own: the index of the module and the three
\* name sets its caller hands to it
ImportRewriterRun(f, a) ==
    IF ParseModule(f).raised THEN Raised(f)
    ELSE Returned([f EXCEPT !.body =
                      PythonImportRewriter(@, PythonParserImportIndex(@), a.used_in_B,
                                           a.names_to_remove_from_module, a.used_in_C_only)])

RunImportRewriter ==
    \E R, C \in SUBSET (DOMAIN PythonParserImportIndex(file.body) \ {"TYPE_CHECKING"}) :
        \E B \in SUBSET R :
            LET a == [used_in_B |-> B, names_to_remove_from_module |-> R, used_in_C_only |-> C]
            IN  RunWith("import_rewriter", ImportRewriterRun(file, a), a)

(***************************************************************************)
(* Module layout passes: TYPE_CHECKING block placement and module metadata *)
(* grouping.  cst.parse_module moves the lines above the first statement   *)
(* into Module.header, so the first statement of a parsed module has no    *)
(* leading lines and the header stays at the top whatever the pass moves.  *)
(***************************************************************************)
ModuleHeader(body) == IF body = <<>> THEN <<>> ELSE body[1].lead

ModuleBody(body) ==
    IF body = <<>> THEN <<>> ELSE <<[body[1] EXCEPT !.lead = <<>>]>> \o Tail(body)

\* Module.code: header, then the statements with their leading lines
ModuleCode(header, body) ==
    IF body = <<>> THEN <<>> ELSE <<[body[1] EXCEPT !.lead = header \o @]>> \o Tail(body)

\* 0-based positions, as in the code
find_type_checking_blocks(body) == {i - 1 : i \in {k \in 1..Len(body) : body[k].kind = "tc"}}

_is_future_import(n) == n.kind = "from" /\ n.name = "__future__"

_is_regular_import(n) == n.kind \in {"from", "import"} /\ ~_is_future_import(n)

LastIndexWhere(body, hits) == IF hits = {} THEN -1 ELSE (CHOOSE i \in hits : \A j \in hits : j <= i) - 1

\* libcst's Module has get_docstring() and no attribute has_docstring: the
\* fall-through `if module.has_docstring:` raises AttributeError, here -1
target_index_for_type_checking(body) ==
    LET last_regular_import == LastIndexWhere(body, {i \in 1..Len(body) : _is_regular_import(body[i])})
        last_future_import == LastIndexWhere(body, {i \in 1..Len(body) : _is_future_import(body[i])})
    IN  IF last_regular_import # -1 THEN last_regular_import + 1
        ELSE IF last_future_import # -1 THEN last_future_import + 1
        ELSE -1

\* the statements at the 0-based positions `found`, leading lines cleared
MovedNodes(body, found) ==
    LET keep == SelectNodes(AsSeqFrom([i \in 1..Len(body) |-> i], 1, Len(body)), {i + 1 : i \in found})
    IN  AsSeqFrom([k \in 1..Len(keep) |-> [body[keep[k]] EXCEPT !.lead = <<>>]], 1, Len(keep))

RemainingNodes(body, found) ==
    LET keep == SelectNodes(AsSeqFrom([i \in 1..Len(body) |-> i], 1, Len(body)), {i + 1 : i \in (0..(Len(body) - 1)) \ found})
    IN  AsSeqFrom([k \in 1..Len(keep) |-> body[keep[k]]], 1, Len(keep))

AdjustedInsert(insert_at, found) == insert_at - Cardinality({i \in found : i < insert_at})

move_type_checking_blocks_after_imports(body) ==
    LET blocks == find_type_checking_blocks(body)
        insert_at == target_index_for_type_checking(body)
    IN  IF blocks = {} THEN body
        ELSE InsertAt(RemainingNodes(body, blocks), AdjustedInsert(insert_at, blocks),
                      MovedNodes(body, blocks))

IsContiguous(indices) == \A i \in indices : \A j \in indices : \A k \in i..j : k \in indices

FirstIndex(indices) == CHOOSE i \in indices : \A j \in indices : i <= j

OrderTypeCheckingBlockOption(f) ==
    LET module == ModuleBody(f.body)
        blocks == find_type_checking_blocks(module)
    IN  IF ParseModule(f).raised THEN Raised(f)
        ELSE IF blocks = {} THEN Returned(f)
        ELSE IF target_index_for_type_checking(module) < 0 THEN Raised(f)
        ELSE IF IsContiguous(blocks) /\ FirstIndex(blocks) = target_index_for_type_checking(module)
             THEN Returned(f)
        ELSE Returned([f EXCEPT !.body =
                 ModuleCode(ModuleHeader(@), move_type_checking_blocks_after_imports(module))])

RunOrderTypeCheckingBlock == RunPass("order_type_checking_block", OrderTypeCheckingBlockOption(file))

_get_assignment_target_name(n) ==
    IF n.kind = "stmt" /\ n.how \in {"assign", "annvar", "annval"} /\ n.name \in METADATA_NAMES
    THEN n.name ELSE ""

find_module_metadata_statements(body) ==
    {i - 1 : i \in {k \in 1..Len(body) : _get_assignment_target_name(body[k]) # ""}}

target_index_for_module_metadata(body) ==
    LET blocks == find_type_checking_blocks(body)
    IN  IF blocks # {} THEN (CHOOSE i \in blocks : \A j \in blocks : j <= i) + 1
        ELSE target_index_for_type_checking(body)

\* list.sort(key=lower-cased name): stable
RECURSIVE InsertByLowerName(_, _)
InsertByLowerName(sorted, n) ==
    IF sorted = <<>> THEN <<n>>
    ELSE IF StrLess(Lower(n.name), Lower(Head(sorted).name)) THEN <<n>> \o sorted
    ELSE <<Head(sorted)>> \o InsertByLowerName(Tail(sorted), n)

RECURSIVE SortByLowerName(_)
SortByLowerName(s) ==
    IF s = <<>> THEN <<>>
    ELSE InsertByLowerName(SortByLowerName(SubSeq(s, 1, Len(s) - 1)), s[Len(s)])

\* the statements are popped from the highest index down, then sorted
group_and_sort_module_metadata(body) ==
    LET found == find_module_metadata_statements(body)
        insert_at == target_index_for_module_metadata(body)
        moved == SortByLowerName(Reversed(MovedNodes(body, found)))
    IN  IF found = {} THEN body
        ELSE InsertAt(RemainingNodes(body, found), AdjustedInsert(insert_at, found), moved)

NamesAt(body, indices) ==
    LET keep == SelectNodes(AsSeqFrom([i \in 1..Len(body) |-> i], 1, Len(body)), {i + 1 : i \in indices})
    IN  AsSeqFrom([k \in 1..Len(keep) |-> body[keep[k]].name], 1, Len(keep))

NamesSorted(names) == \A i \in 1..Len(names) : \A j \in i..Len(names) : ~StrLess(Lower(names[j]), Lower(names[i]))

OrderModuleMetadataOption(f) ==
    LET module == ModuleBody(f.body)
        found == find_module_metadata_statements(module)
    IN  IF ParseModule(f).raised THEN Raised(f)
        ELSE IF found = {} THEN Returned(f)
        ELSE IF target_index_for_module_metadata(module) < 0 THEN Raised(f)
        ELSE IF /\ IsContiguous(found)
                /\ NamesSorted(NamesAt(module, found))
                /\ FirstIndex(found) = target_index_for_module_metadata(module)
             THEN Returned(f)
        ELSE Returned([f EXCEPT !.body =
                 ModuleCode(ModuleHeader(@), group_and_sort_module_metadata(module))])

RunOrderModuleMetadata == RunPass("order_module_metadata", OrderModuleMetadataOption(file))

(***************************************************************************)
(* Flagged constant sorting.  A leading line is "blank", "comment" or      *)
(* "flag", the comment `# filestate: python-constant-sort`.                *)
(***************************************************************************)
IsSimpleStatementLine(n) == n.kind \in {"stmt", "from", "import", "doc"}

_get_simple_assignment_name(n) == IF IsNameAssignment(n) /\ IsUpper(n.name) THEN n.name ELSE ""

_stmt_has_flag(n) == \E i \in 1..Len(n.lead) : n.lead[i] = "flag"

\* the previous sibling is an EmptyLine carrying the flag
_prev_line_has_flag(body, i) == i > 1 /\ body[i - 1].kind = "emptyline" /\ _stmt_has_flag(body[i - 1])

\* end (exclusive) of the block started at i, scanning from j
RECURSIVE ConstantBlockEnd(_, _, _)
ConstantBlockEnd(body, i, j) ==
    IF /\ j <= Len(body)
       /\ IsSimpleStatementLine(body[j])
       /\ (j = i \/ ~HasBlank(body[j].lead))
       /\ _get_simple_assignment_name(body[j]) # ""
    THEN ConstantBlockEnd(body, i, j + 1)
    ELSE j

RECURSIVE FlaggedBlocksFrom(_, _)
FlaggedBlocksFrom(body, i) ==
    IF i > Len(body) THEN <<>>
    ELSE IF /\ IsSimpleStatementLine(body[i])
            /\ (_stmt_has_flag(body[i]) \/ _prev_line_has_flag(body, i))
            /\ _get_simple_assignment_name(body[i]) # ""
         THEN LET j == ConstantBlockEnd(body, i, i)
              IN  <<[start |-> i, end |-> j]>> \o FlaggedBlocksFrom(body, j)
         ELSE FlaggedBlocksFrom(body, i + 1)

\* blocks as [start, end exclusive], 1-based
find_flagged_constant_blocks(body) == FlaggedBlocksFrom(body, 1)

LinesOfKind(lead, kinds) == SelectNodes(lead, kinds)

\* the flag lines of the first node that has any
RECURSIVE CollectedFlagLines(_)
CollectedFlagLines(nodes) ==
    IF nodes = <<>> THEN <<>>
    ELSE IF _stmt_has_flag(Head(nodes)) THEN LinesOfKind(Head(nodes).lead, {"flag"})
    ELSE CollectedFlagLines(Tail(nodes))

\* the blank lines of the first node in front of its flag comment
RECURSIVE BlankLinesBeforeFlag(_)
BlankLinesBeforeFlag(lead) ==
    IF lead = <<>> \/ Head(lead) = "flag" THEN <<>>
    ELSE (IF Head(lead) = "blank" THEN <<"blank">> ELSE <<>>) \o BlankLinesBeforeFlag(Tail(lead))

sort_constants_block(nodes) ==
    LET pairs == AsSeqFrom([i \in 1..Len(nodes) |-> [name |-> nodes[i].name, at |-> i]], 1, Len(nodes))
        sorted_pairs == SortByLowerName(pairs)
        cleaned(i) == LinesOfKind(nodes[i].lead, {"comment"})
        first == BlankLinesBeforeFlag(nodes[1].lead) \o CollectedFlagLines(nodes)
    IN  IF sorted_pairs = pairs THEN nodes
        ELSE AsSeqFrom([k \in 1..Len(nodes) |->
                 [nodes[sorted_pairs[k].at] EXCEPT
                     !.lead = (IF k = 1 THEN first ELSE <<>>) \o cleaned(sorted_pairs[k].at)]],
                 1, Len(nodes))

\* the blocks are replaced from the last to the first
RECURSIVE ReplaceConstantBlocks(_, _)
ReplaceConstantBlocks(body, blocks) ==
    IF blocks = <<>> THEN body
    ELSE LET b == blocks[Len(blocks)]
         IN  ReplaceConstantBlocks(
                 Slice(body, 1, b.start - 1)
                     \o sort_constants_block(SubSeq(body, b.start, b.end - 1))
                     \o Slice(body, b.end, Len(body)),
                 SubSeq(blocks, 1, Len(blocks) - 1))

reorder_flagged_constants(body) == ReplaceConstantBlocks(body, find_flagged_constant_blocks(body))

reorder_flagged_constants_in_classes(body) ==
    AsSeqFrom([i \in 1..Len(body) |->
                  IF body[i].kind = "class"
                  THEN [body[i] EXCEPT !.body = reorder_flagged_constants(@)]
                  ELSE body[i]],
              1, Len(body))

reorder_flagged_constants_everywhere(body) ==
    reorder_flagged_constants_in_classes(reorder_flagged_constants(body))

OrderConstantsOption(f) ==
    IF ParseModule(f).raised THEN Raised(f)
    ELSE Returned([f EXCEPT !.body =
             ModuleCode(ModuleHeader(@), reorder_flagged_constants_everywhere(ModuleBody(@)))])

RunOrderConstants == RunPass("order_constants", OrderConstantsOption(file))

(***************************************************************************)
(* Class method ordering.  A decorator of a method is a record of its sig: *)
(* how "decorator" with the decorator's name, or how "setter" / "deleter"  *)
(* with the base name of `@<base>.setter` / `@<base>.deleter`.             *)
(***************************************************************************)
DUnderGroups ==
    << <<"__new__", "__init__">>,
       <<"__repr__", "__str__">>,
       <<"__lt__", "__le__", "__eq__", "__ne__", "__gt__", "__ge__", "__hash__">>,
       <<"__bool__">>,
       <<"__getattribute__", "__getattr__", "__setattr__", "__delattr__">>,
       <<"__len__", "__iter__", "__getitem__", "__setitem__", "__delitem__">>,
       <<"__call__">>,
       <<"__enter__", "__exit__", "__aenter__", "__aexit__">>,
       <<"__await__", "__aiter__", "__anext__">>,
       <<"__get__", "__set__", "__delete__", "__getstate__", "__setstate__">> >>

DunderPositions == {p \in (1..Len(DUnderGroups)) \X (1..7) : p[2] <= Len(DUnderGroups[p[1]])}

_DUNDER_ORDER(name) ==
    IF \E p \in DunderPositions : DUnderGroups[p[1]][p[2]] = name
    THEN LET p == CHOOSE q \in DunderPositions : DUnderGroups[q[1]][q[2]] = name
         IN  <<p[1] - 1, p[2] - 1>>
    ELSE <<999, 999>>

\* name.startswith("__") and name.endswith("__")
_is_dunder(name) ==
    \/ \E p \in DunderPositions : DUnderGroups[p[1]][p[2]] = name
    \/ name \in {"__slots__", "__all__", "__version__"}

_is_private(name) == StartsWithUnderscore(name) /\ ~_is_dunder(name)

_has_decorator(func, decorator_name) ==
    \E d \in func.sig : d.how = "decorator" /\ d.ref = decorator_name

_property_kind(func) ==
    IF _has_decorator(func, "property") THEN [base |-> func.name, kind |-> "getter"]
    ELSE IF \E d \in func.sig : d.how \in {"setter", "deleter"}
         THEN LET d == CHOOSE e \in func.sig : e.how \in {"setter", "deleter"}
              IN  [base |-> d.ref, kind |-> d.how]
         ELSE [base |-> "", kind |-> ""]

_classify_method(func) ==
    IF _property_kind(func).base # "" THEN "property"
    ELSE IF _has_decorator(func, "classmethod") THEN "classmethod"
    ELSE IF _has_decorator(func, "staticmethod") THEN "staticmethod"
    ELSE IF _is_dunder(func.name) THEN "dunder"
    ELSE "instance"

\* sorted(items, key=...) on [key, node] records: stable
RECURSIVE InsertByKey(_, _)
InsertByKey(sorted, x) ==
    IF sorted = <<>> THEN <<x>>
    ELSE IF KeyLeq(Head(sorted).key, x.key) THEN <<Head(sorted)>> \o InsertByKey(Tail(sorted), x)
    ELSE <<x>> \o sorted

RECURSIVE SortByKey(_)
SortByKey(items) ==
    IF items = <<>> THEN <<>>
    ELSE InsertByKey(SortByKey(SubSeq(items, 1, Len(items) - 1)), items[Len(items)])

SortedNodes(nodes, Key(_)) ==
    LET items == SortByKey(AsSeqFrom([i \in 1..Len(nodes) |-> [key |-> Key(nodes[i]), node |-> nodes[i]]], 1, Len(nodes)))
    IN  AsSeqFrom([i \in 1..Len(items) |-> items[i].node], 1, Len(items))

_sort_key_alpha(n) == SortKey(n.name)

DunderKey(n) == _DUNDER_ORDER(n.name)

MethodsOfKind(methods, kind) == SelectNodes(methods, {m \in SeqRange(methods) : _classify_method(m) = kind})

dunder_ordered(methods) ==
    LET dunders == MethodsOfKind(methods, "dunder")
        known == SelectNodes(dunders, {m \in SeqRange(dunders) : _DUNDER_ORDER(m.name)[1] # 999})
        unknown == SelectNodes(dunders, {m \in SeqRange(dunders) : _DUNDER_ORDER(m.name)[1] = 999})
    IN  SortedNodes(known, DunderKey) \o SortedNodes(unknown, _sort_key_alpha)

sort_by_visibility(items) ==
    LET pub == SelectNodes(items, {m \in SeqRange(items) : ~_is_private(m.name)})
        priv == SelectNodes(items, {m \in SeqRange(items) : _is_private(m.name)})
    IN  SortedNodes(pub, _sort_key_alpha) \o SortedNodes(priv, _sort_key_alpha)

\* the keys of prop_groups in insertion order
RECURSIVE PropertyBases(_, _)
PropertyBases(properties, seen) ==
    IF properties = <<>> THEN <<>>
    ELSE LET base == _property_kind(Head(properties)).base
         IN  (IF base \in seen THEN <<>> ELSE <<[name |-> base]>>)
                 \o PropertyBases(Tail(properties), seen \cup {base})

\* g[kind] = node: the last accessor of a base and kind wins
prop_group_to_nodes(properties, base) ==
    LET Of(kind) == {i \in 1..Len(properties) : _property_kind(properties[i]) = [base |-> base, kind |-> kind]}
        Pick(kind) == IF Of(kind) = {} THEN <<>>
                      ELSE <<properties[CHOOSE i \in Of(kind) : \A j \in Of(kind) : j <= i]>>
    IN  Pick("getter") \o Pick("setter") \o Pick("deleter")

RECURSIVE PropsOrderedFrom(_, _)
PropsOrderedFrom(properties, bases) ==
    IF bases = <<>> THEN <<>>
    ELSE prop_group_to_nodes(properties, Head(bases).name) \o PropsOrderedFrom(properties, Tail(bases))

props_ordered(methods) ==
    LET properties == MethodsOfKind(methods, "property")
    IN  PropsOrderedFrom(properties, SortByLowerName(PropertyBases(properties, {})))

ordered_methods(methods) ==
    dunder_ordered(methods)
        \o sort_by_visibility(MethodsOfKind(methods, "classmethod"))
        \o sort_by_visibility(MethodsOfKind(methods, "staticmethod"))
        \o props_ordered(methods)
        \o sort_by_visibility(MethodsOfKind(methods, "instance"))

\* zip(method_indices, ordered_methods) stops at the shorter of the two
reorder_class_methods(classdef) ==
    LET body_list == classdef.body
        method_indices == SelectNodes(AsSeqFrom([i \in 1..Len(body_list) |-> i], 1, Len(body_list)),
                                      {i \in 1..Len(body_list) : body_list[i].kind = "func"})
        method_nodes == AsSeqFrom([k \in 1..Len(method_indices) |-> body_list[method_indices[k]]],
                                  1, Len(method_indices))
        ordered == ordered_methods(method_nodes)
        PosOf(i) == CHOOSE k \in 1..Len(method_indices) : method_indices[k] = i
    IN  IF method_nodes = <<>> \/ ordered = method_nodes THEN classdef
        ELSE [classdef EXCEPT !.body =
                 AsSeqFrom([i \in 1..Len(body_list) |->
                               IF body_list[i].kind = "func" /\ PosOf(i) <= Len(ordered)
                               THEN ordered[PosOf(i)] ELSE body_list[i]],
                           1, Len(body_list))]

ensure_order_class_methods_in_module(body) ==
    AsSeqFrom([i \in 1..Len(body) |->
                  IF body[i].kind = "class" THEN reorder_class_methods(body[i]) ELSE body[i]],
              1, Len(body))

OrderClassMethodsOption(f) ==
    IF ParseModule(f).raised THEN Raised(f)
    ELSE Returned([f EXCEPT !.body = ensure_order_class_methods_in_module(@)])

RunOrderClassMethods == RunPass("order_class_methods", OrderClassMethodsOption(file))

(***************************************************************************)
(* Module class ordering.                                                  *)
(***************************************************************************)
\* 0-based positions of the top-level classes
collect_module_classes(body) == {i - 1 : i \in {k \in 1..Len(body) : body[k].kind = "class"}}

\* the first main guard of new_body in front of the anchor takes its place
MainGuardBefore(new_body, insert_at) ==
    LET guards == {i \in 1..Len(new_body) : IsMainGuard(new_body[i]) /\ insert_at > i - 1}
    IN  IF guards = {} THEN insert_at ELSE FirstIndex(guards) - 1

reorder_module_classes(body) ==
    LET classes == collect_module_classes(body)
        first_class_index == FirstIndex(classes)
        tail_classes == SelectNodes(body, {n \in SeqRange(body) : n.kind = "class"})
        new_body == SelectNodes(body, {n \in SeqRange(body) : n.kind # "class"})
    IN  IF classes = {} THEN body
        ELSE InsertAt(new_body, MainGuardBefore(new_body, first_class_index),
                      SortByLowerName(tail_classes))

\* preview_source_change: None when the code is unchanged
PythonOrderModuleClassesOperation(f) ==
    IF ParseModule(f).raised THEN Raised(f)
    ELSE Returned([f EXCEPT !.body = ModuleCode(ModuleHeader(@), reorder_module_classes(ModuleBody(@)))])

RunOrderModuleClasses == RunPass("order_module_classes", PythonOrderModuleClassesOperation(file))

(***************************************************************************)
(* Removal of __future__ imports (helpers/source.py of the operations      *)
(* package): the top-level `from __future__ import ...` statements are cut *)
(* out of the text, with one blank line directly below each cut; the lines *)
(* above a cut statement stay and now lead the next statement.             *)
(***************************************************************************)
RECURSIVE RemoveFutureSpans(_, _, _)
RemoveFutureSpans(body, carried, below_span) ==
    IF body = <<>> THEN <<>>
    ELSE LET n == Head(body)
             lead == IF below_span /\ n.lead # <<>> /\ n.lead[1] = "blank"
                     THEN Tail(n.lead) ELSE n.lead
         IN  IF n.kind = "from" /\ n.name = "__future__"
             THEN RemoveFutureSpans(Tail(body), carried \o lead, TRUE)
             ELSE <<[n EXCEPT !.lead = carried \o lead]>>
                      \o RemoveFutureSpans(Tail(body), <<>>, FALSE)

source_remove_future_imports(body) == RemoveFutureSpans(body, <<>>, FALSE)

\* PythonRemoveFutureImportsOperation.apply; ast.parse raises on a text that
\* does not parse
PythonRemoveFutureImportsOperation(f) ==
    IF ParseModule(f).raised THEN Raised(f)
    ELSE Returned([f EXCEPT !.body = source_remove_future_imports(@)])

RunRemoveFutureImports == RunPass("remove_future_imports", PythonRemoveFutureImportsOperation(file))

(***************************************************************************)
(* Blank-line spacing (operation/utils/python_spacing_utils.py).  The      *)
(* helpers look for cst.EmptyLine entries in a statement list.  A parsed   *)
(* statement list holds statements only: the blank and comment lines above *)
(* a statement are its `lead` (leading_lines), never entries of the list.  *)
(***************************************************************************)
IsEmptyLine(n) == n.kind = "emptyline"

\* _is_comment_emptyline
IsCommentEmptyLine(n) == IsEmptyLine(n) /\ n.how = "comment"

\* _is_blank_emptyline
IsBlankEmptyLine(n) == IsEmptyLine(n) /\ n.how # "comment"

\* the entries of seq at the positions outside `removed`
RECURSIVE DropPositions(_, _, _)
DropPositions(seq, removed, i) ==
    IF i > Len(seq) THEN <<>>
    ELSE (IF i \in removed THEN <<>> ELSE <<seq[i]>>) \o DropPositions(seq, removed, i + 1)

\* _count_blank_between: the blank EmptyLine entries strictly between two positions
BlankPositionsBetween(seq, start_idx, end_idx) ==
    {i \in (start_idx + 1)..(end_idx - 1) : i <= Len(seq) /\ IsBlankEmptyLine(seq[i])}

CountBlankBetween(seq, start_idx, end_idx) == Cardinality(BlankPositionsBetween(seq, start_idx, end_idx))

\* _cap_blank_between: the list itself when the count is within max_allowed,
\* else the list without the surplus blank entries closest to end_idx
CapBlankBetween(seq, start_idx, end_idx, max_allowed) ==
    LET blanks == BlankPositionsBetween(seq, start_idx, end_idx)
        current == Cardinality(blanks)
        removed == {i \in blanks : Cardinality({k \in blanks : k >= i}) <= current - max_allowed}
    IN  IF current <= max_allowed THEN seq ELSE DropPositions(seq, removed, 1)

\* `j = idx + 1; while j < len(body) and _is_comment_emptyline(body[j]): j += 1`
RECURSIVE SkipCommentEmptyLines(_, _)
SkipCommentEmptyLines(body, j) ==
    IF j <= Len(body) /\ IsCommentEmptyLine(body[j]) THEN SkipCommentEmptyLines(body, j + 1) ELSE j

\* `while j >= 0 and isinstance(body[j], cst.EmptyLine): j -= 1`
RECURSIVE SkipEmptyLinesBackwards(_, _)
SkipEmptyLinesBackwards(body, j) ==
    IF j >= 1 /\ IsEmptyLine(body[j]) THEN SkipEmptyLinesBackwards(body, j - 1) ELSE j

\* find_module_docstring: the first string expression statement among the
\* leading simple statements, 0 when there is none
RECURSIVE FindModuleDocstring(_, _)
FindModuleDocstring(body, i) ==
    IF i > Len(body) THEN 0
    ELSE IF body[i].kind = "doc" THEN i
    ELSE IF IsSimpleStatementLine(body[i]) THEN FindModuleDocstring(body, i + 1)
    ELSE 0

\* cap the blank entries between position idx and the next entry that is
\* not a comment line
CapAfter(body, idx, max_allowed) ==
    LET j == SkipCommentEmptyLines(body, idx + 1)
    IN  IF j <= Len(body) THEN CapBlankBetween(body, idx, j, max_allowed) ELSE body

\* normalize_module_spacing, step 2: `for idx, stmt in enumerate(body)` walks
\* the list the loop started with while the caps apply to the current one
RECURSIVE CapAfterTypeCheckingBlocks(_, _, _)
CapAfterTypeCheckingBlocks(walked, body, idx) ==
    IF idx > Len(walked) THEN body
    ELSE CapAfterTypeCheckingBlocks(walked,
             IF walked[idx].kind = "tc" THEN CapAfter(body, idx, 1) ELSE body, idx + 1)

\* normalize_module_spacing, step 3: at most two blank entries before a
\* top-level class or function that is not the first entry, unless a comment
\* line stands between it and the previous statement; body[idx - 1] past the
\* end of a list that an earlier cap has shortened is an IndexError
RECURSIVE CapBeforeDefinitions(_, _, _)
CapBeforeDefinitions(walked, body, idx) ==
    IF idx > Len(walked) THEN [raised |-> FALSE, body |-> body]
    ELSE IF ~(walked[idx].kind \in {"class", "func"}) \/ idx = 1
         THEN CapBeforeDefinitions(walked, body, idx + 1)
    ELSE IF idx - 1 > Len(body) THEN [raised |-> TRUE, body |-> body]
    ELSE LET j == SkipEmptyLinesBackwards(body, idx - 1)
             has_comment == \E k \in (j + 1)..(idx - 1) : IsCommentEmptyLine(body[k])
         IN  CapBeforeDefinitions(walked,
                 IF ~has_comment /\ j >= 1 THEN CapBlankBetween(body, j, idx, 2) ELSE body,
                 idx + 1)

normalize_module_spacing(body) ==
    LET ds_idx == FindModuleDocstring(body, 1)
        after_doc == IF ds_idx # 0 /\ Len(body) > ds_idx THEN CapAfter(body, ds_idx, 1) ELSE body
        after_tc == CapAfterTypeCheckingBlocks(after_doc, after_doc, 1)
    IN  CapBeforeDefinitions(after_tc, after_tc, 1)

\* the leading blank entries of a suite removed
RECURSIVE DropLeadingBlankEmptyLines(_)
DropLeadingBlankEmptyLines(body) ==
    IF body # <<>> /\ IsBlankEmptyLine(body[1]) THEN DropLeadingBlankEmptyLines(Tail(body)) ELSE body

\* _ensure_one_blank_after_docstring_in_suite
EnsureOneBlankAfterDocstringInSuite(body) ==
    IF body = <<>> THEN body
    ELSE IF body[1].kind # "doc" THEN DropLeadingBlankEmptyLines(body)
    ELSE CapAfter(body, 1, 1)

\* normalize_class_spacing, step 2: the blank entries between two methods
\* that follow each other capped to one, to none across comment lines
\* (_property_kind is the fallback that knows no property: the module it is
\* imported from does not exist)
RECURSIVE CapBetweenMethods(_, _)
CapBetweenMethods(body, i) ==
    IF i >= Len(body) THEN body
    ELSE LET j == SkipCommentEmptyLines(body, i + 1)
         IN  IF j > Len(body) THEN body
             ELSE IF body[i].kind = "func" /\ body[j].kind = "func"
                  THEN CapBetweenMethods(CapBlankBetween(body, i, j, IF j > i + 1 THEN 0 ELSE 1), j)
                  ELSE CapBetweenMethods(body, i + 1)

NormalizeFunctionSuite(n) ==
    IF n.kind = "func" THEN [n EXCEPT !.body = EnsureOneBlankAfterDocstringInSuite(@)] ELSE n

normalize_class_spacing(classdef) ==
    LET body == classdef.body
        after_doc == IF body # <<>> /\ body[1].kind = "doc" THEN CapAfter(body, 1, 1) ELSE body
        capped == CapBetweenMethods(after_doc, 1)
    IN  [classdef EXCEPT !.body = [i \in 1..Len(capped) |-> NormalizeFunctionSuite(capped[i])]]

\* normalize_spacing_everywhere: the module rules, then the rules of each
\* top-level class and of each top-level function suite
normalize_spacing_everywhere(body) ==
    LET mod == normalize_module_spacing(body)
    IN  [raised |-> mod.raised,
         body |-> [i \in 1..Len(mod.body) |->
                      IF mod.body[i].kind = "class" THEN normalize_class_spacing(mod.body[i])
                      ELSE NormalizeFunctionSuite(mod.body[i])]]

\* PythonNormalizeSpacingOperation.preview_source_change
PythonNormalizeSpacingOperation(f) ==
    IF ParseModule(f).raised THEN Raised(f)
    ELSE LET out == normalize_spacing_everywhere(f.body)
         IN  IF out.raised THEN Raised(f) ELSE Returned([f EXCEPT !.body = out.body])

RunNormalizeSpacing == RunPass("normalize_spacing", PythonNormalizeSpacingOperation(file))

(***************************************************************************)
(* Flagged iterable sorting (operation/utils/python_iterable_utils.py)     *)
(* works on text.  A text is the sequence of its lines, each with its      *)
(* terminator:                                                             *)
(*   line  [kind, indent, text]; kind "code" | "flag" | "comment" |        *)
(*         "item" | "blank" | "close" ("]")                                *)
(*   end   "\n" | "\r\n" | "" (no terminator, on the last line only)       *)
(***************************************************************************)
Line(kind, indent, text) == [kind |-> kind, indent |-> indent, text |-> text]

\* str.splitlines(): the lines without their terminators
SplitLines(src) == AsSeqFrom([i \in 1..Len(src) |-> src[i].line], 1, Len(src))

\* "\n".join(lines): a line feed between two lines, nothing after the last
JoinLines(lines) ==
    AsSeqFrom([i \in 1..Len(lines) |-> [line |-> lines[i], end |-> IF i < Len(lines) THEN "\n" ELSE ""]],
              1, Len(lines))

\* `ln.strip() == ""`
IsBlankLine(ln) == ln.kind = "blank"

\* `ln.lstrip().startswith("#")`: the flag line is a comment line
IsCommentLine(ln) == ln.kind \in {"comment", "flag"}

\* _find_flag_line_indices, in ascending order
FindFlagLineIndices(lines) == {i \in 1..Len(lines) : lines[i].kind = "flag"}

\* _collect_iterable_block: the blank and comment lines below the flag are
\* skipped, then the block runs up to the first blank line, closing bracket
\* at the flag's indentation or less, or comment line
RECURSIVE SkipBlankAndCommentLines(_, _)
SkipBlankAndCommentLines(lines, i) ==
    IF i <= Len(lines) /\ (IsBlankLine(lines[i]) \/ IsCommentLine(lines[i]))
    THEN SkipBlankAndCommentLines(lines, i + 1) ELSE i

RECURSIVE ScanIterableBlock(_, _, _)
ScanIterableBlock(lines, base_indent, i) ==
    IF i > Len(lines) THEN i
    ELSE IF IsBlankLine(lines[i]) THEN i
    ELSE IF lines[i].kind = "close" /\ lines[i].indent <= base_indent THEN i
    ELSE IF IsCommentLine(lines[i]) THEN i
    ELSE ScanIterableBlock(lines, base_indent, i + 1)

\* [start, end): end is exclusive
CollectIterableBlock(lines, flag_idx) ==
    LET start == SkipBlankAndCommentLines(lines, flag_idx + 1)
    IN  [start |-> start, end |-> ScanIterableBlock(lines, lines[flag_idx].indent, start)]

\* split_into_groups: each item line with the comment lines above it; comment
\* lines below the last item go to the last group
RECURSIVE SplitIntoGroups(_, _, _)
SplitIntoGroups(block_lines, groups, pending_comments) ==
    IF block_lines = <<>>
    THEN IF pending_comments = <<>> THEN groups
         ELSE IF groups # <<>>
              THEN SubSeq(groups, 1, Len(groups) - 1) \o <<groups[Len(groups)] \o pending_comments>>
              ELSE <<pending_comments>>
    ELSE IF IsCommentLine(Head(block_lines))
         THEN SplitIntoGroups(Tail(block_lines), groups, Append(pending_comments, Head(block_lines)))
         ELSE SplitIntoGroups(Tail(block_lines), Append(groups, Append(pending_comments, Head(block_lines))), <<>>)

\* group_key: the first line of the group that is not a comment, stripped,
\* without its trailing comma, lowercased
RECURSIVE GroupKey(_)
GroupKey(g) ==
    IF g = <<>> THEN ""
    ELSE IF ~IsCommentLine(Head(g)) THEN Lower(Head(g).text)
    ELSE GroupKey(Tail(g))

\* sorted(groups, key=group_key): stable
RECURSIVE InsertGroupByKey(_, _)
InsertGroupByKey(sorted, g) ==
    IF sorted = <<>> THEN <<g>>
    ELSE IF ~StrLess(GroupKey(g), GroupKey(Head(sorted))) THEN <<Head(sorted)>> \o InsertGroupByKey(Tail(sorted), g)
    ELSE <<g>> \o sorted

RECURSIVE SortGroupsByKey(_)
SortGroupsByKey(groups) ==
    IF groups = <<>> THEN <<>>
    ELSE InsertGroupByKey(SortGroupsByKey(SubSeq(groups, 1, Len(groups) - 1)), groups[Len(groups)])

GroupKeys(groups) == AsSeqFrom([i \in 1..Len(groups) |-> GroupKey(groups[i])], 1, Len(groups))

\* the loop of reorder_flagged_iterables over the flag lines, last flag first
RECURSIVE SortFlaggedBlocks(_, _)
SortFlaggedBlocks(state, flags) ==
    IF flags = {} THEN state
    ELSE LET flag_idx == CHOOSE x \in flags : \A y \in flags : x >= y
             lines == state.lines
             b == CollectIterableBlock(lines, flag_idx)
             groups == SplitIntoGroups(Slice(lines, b.start, b.end - 1), <<>>, <<>>)
             sorted_groups == SortGroupsByKey(groups)
         IN  SortFlaggedBlocks(
                 IF b.start >= b.end \/ GroupKeys(sorted_groups) = GroupKeys(groups) THEN state
                 ELSE [lines |-> Slice(lines, 1, b.start - 1) \o ConcatAll(sorted_groups)
                                     \o Slice(lines, b.end, Len(lines)),
                       changed |-> TRUE],
                 flags \ {flag_idx})

reorder_flagged_iterables(src) ==
    LET lines == SplitLines(src)
        out == SortFlaggedBlocks([lines |-> lines, changed |-> FALSE], FindFlagLineIndices(lines))
    IN  IF out.changed THEN JoinLines(out.lines) ELSE src

\* PythonOrderIterableItemsOperation.preview_source_change
PythonOrderIterableItemsOperation(f) == Returned(reorder_flagged_iterables(f))

RunOrderIterableItems == RunPass("order_iterable_items", PythonOrderIterableItemsOperation(file))

(***************************************************************************)
(* Input files of the class attribute ordering runs: one class whose body  *)
(* holds up to MaxAttrs attribute assignments or methods.                  *)
(***************************************************************************)
AttrNames == {"a", "b", "_a"}

AttrLeads == {<<>>, <<"blank">>, <<"blank", "comment">>}

AttrItems ==
    {WithLead(Stmt("assign", n, ""), l) : n \in AttrNames, l \in AttrLeads}
        \cup {Def("func", "f", {}, <<>>)}

SeqsUpTo(S, n) == UNION {[1..k -> S] : k \in 1..n}

AttrInputs ==
    {SourceFile(TRUE, <<Def("class", "C", {}, AsSeqFrom(b, 1, Len(b)))>>) :
        b \in SeqsUpTo(AttrItems, MaxAttrs)}

InitCommon ==
    /\ before = file
    /\ lastOp = ""
    /\ runs = 0
    /\ raised = FALSE
    /\ proposed = FALSE
    /\ args = NoArgs

InitAttrs ==
    /\ file \in AttrInputs
    /\ enabled = {"order_class_attributes"}
    /\ InitCommon

NextAttrs == RunOrderClassAttributes

SpecAttrs == InitAttrs /\ [][NextAttrs]_vars

(***************************************************************************)
(* Input files of the module function ordering runs: up to MaxTop          *)
(* top-level statements.                                                   *)
(***************************************************************************)
FuncNames == {"f", "g", "G", "_f"}

FuncLeads == {<<>>, <<"blank">>, <<"comment">>}

TopItems ==
    {WithLead(Def("func", n, {}, <<>>), l) : n \in FuncNames, l \in FuncLeads}
        \cup {FromImport("pkg", <<Alias("Thing", "")>>),
              Def("class", "C", {}, <<>>),
              Stmt("assign", "MAX", ""),
              Stmt("call", "", ""),
              Node("main", "")}

FuncInputs ==
    {SourceFile(TRUE, AsSeqFrom(b, 1, Len(b))) : b \in SeqsUpTo(TopItems, MaxTop)}

InitFuncs ==
    /\ file \in FuncInputs
    /\ enabled = {"order_module_functions"}
    /\ InitCommon

NextFuncs == RunOrderModuleFunctions

SpecFuncs == InitFuncs /\ [][NextFuncs]_vars
(***************************************************************************)
(* Input files of the import relocation runs.  Usage files: module-level   *)
(* imports, optionally a class with an annotated attribute, then one       *)
(* statement using an imported name at module level, in a class body, in a *)
(* function, a method or a nested function.  Nesting files: one or two     *)
(* chains of up to MaxDepth nested definitions, all named f.               *)
(***************************************************************************)
MaxDepth == 3

ImportThing == FromImport("pkg", <<Alias("Thing", "")>>)

Headers ==
    {<<ImportThing>>,
     <<BareImport(<<Alias("os", "")>>)>>,
     <<ImportThing, BareImport(<<Alias("os", "")>>)>>,
     <<ImportThing, FromImport("lib", <<Alias("Zed", "")>>)>>}

AttributeClasses ==
    {<<>>,
     <<Def("class", "C", {}, <<Stmt("annvar", "x", "Thing")>>)>>,
     <<Def("class", "C", {}, <<Stmt("annval", "x", "Thing")>>)>>}

Hint(how, ref) == [how |-> how, ref |-> ref]

Pass == Stmt("pass", "", "")

UsageStatements ==
    {Stmt(h, "", r) : h \in {"call", "name", "cast", "caststr"}, r \in {"Thing", "os"}}
        \cup {Stmt(h, "x", r) : h \in {"annvar", "annval", "assign"}, r \in {"Thing", "os"}}
        \cup {Pass}

Signatures ==
    {{Hint("annret", "Thing")}, {Hint("annparam", "Thing")}, {Hint("annparam", "os")},
     {Hint("default", "Thing")}, {Hint("decorator", "Thing")}}

UsageFunctions ==
    {Def("func", "f", {}, <<st>>) : st \in UsageStatements}
        \cup {Def("func", "f", sig, <<st>>) :
                 sig \in Signatures,
                 st \in {Pass, Stmt("call", "", "Thing"), Stmt("cast", "", "Thing"),
                         Stmt("caststr", "", "Thing")}}
        \cup {Def("func", "f", {}, <<Stmt("call", "", "Thing"), st>>) :
                 st \in {Stmt("call", "", "Zed"), Stmt("cast", "", "os")}}

UsageTrees ==
    {<<st>> : st \in UsageStatements}
        \cup {<<fn>> : fn \in UsageFunctions}
        \cup {<<Def("class", "D", {}, <<fn>>)>> : fn \in UsageFunctions}
        \cup {<<Def("func", "f", {}, <<fn>>)>> : fn \in UsageFunctions}
        \cup {<<Def("class", "D", sig, <<st>>)>> :
                 sig \in {{}, {Hint("base", "Thing")}}, st \in UsageStatements}

UsageInputs ==
    {SourceFile(TRUE, h \o c \o t) : h \in Headers, c \in AttributeClasses, t \in UsageTrees}

\* chains of nested definitions named f, the innermost holding the statement
RECURSIVE Chains(_, _)
Chains(depth, leaves) ==
    IF depth = 0 THEN {}
    ELSE LET deeper == Chains(depth - 1, leaves)
         IN  {Def(k, "f", {}, <<st>>) : k \in {"func", "class"}, st \in leaves}
                 \cup {Def(k, "f", {}, <<c>>) : k \in {"func", "class"}, c \in deeper}

NestingChains == Chains(MaxDepth, {Pass, Stmt("call", "", "Thing")})

NestingInputs ==
    {SourceFile(TRUE, <<ImportThing>> \o c \o t) :
        c \in AttributeClasses,
        t \in {<<a>> : a \in NestingChains} \cup {<<a, b>> : a \in NestingChains, b \in NestingChains}}

InitRelocate ==
    /\ file \in UsageInputs \cup NestingInputs
    /\ enabled = {"relocate_imports"}
    /\ InitCommon

NextRelocate == RunRelocateImports

SpecRelocate == InitRelocate /\ [][NextRelocate]_vars

(***************************************************************************)
(* PythonOption.create_required_operation (option/python_option.py): the   *)
(* enabled options are tried in the order of get_allowed_options and the   *)
(* first operation found is the one returned; an exception of an option    *)
(* propagates.                                                             *)
(***************************************************************************)
AllowedOptions == <<"order_class_attributes", "order_module_functions", "relocate_imports">>

ApplyContentChange(option, f, descending) ==
    CASE option = "order_class_attributes" -> OrderClassAttributesOption(f)
      [] option = "order_module_functions" -> OrderModuleFunctionsOption(f)
      [] option = "relocate_imports" -> RelocateImportsOption(f, descending)

RECURSIVE FirstOperation(_, _, _, _)
FirstOperation(options, P, f, descending) ==
    IF options = <<>> THEN Returned(f)
    ELSE IF Head(options) \notin P THEN FirstOperation(Tail(options), P, f, descending)
    ELSE LET result == ApplyContentChange(Head(options), f, descending)
         IN  IF result.raised \/ result.text # f THEN result
             ELSE FirstOperation(Tail(options), P, f, descending)

create_required_operation(P, f, descending) == FirstOperation(AllowedOptions, P, f, descending)

RunPythonOption ==
    \E descending \in BOOLEAN :
        RunPass("python_option", create_required_operation(enabled, file, descending))

(***************************************************************************)
(* Input files of the runs of the whole option: files of the three         *)
(* families, well-formed or not, under every non-empty set of options.     *)
(***************************************************************************)
OptionInputs ==
    LET wellformed == AttrInputs
                        \cup {f \in FuncInputs : Len(f.body) < MaxTop}
                        \cup {f \in NestingInputs : Len(f.body) < MaxDepth}
    IN  wellformed
            \cup {SourceFile(FALSE, f.body) : f \in {g \in wellformed : Len(g.body) = 1}}

InitOption ==
    /\ file \in OptionInputs
    /\ enabled \in (SUBSET SeqRange(AllowedOptions)) \ {{}}
    /\ InitCommon

NextOption == RunPythonOption

SpecOption == InitOption /\ [][NextOption]_vars

(***************************************************************************)
(* Input files of the module layout runs: up to MaxTop top-level           *)
(* statements, a comment line above some of them.                          *)
(***************************************************************************)
LayoutLeads == {<<>>, <<"comment">>}

LayoutItems ==
    {ImportThing,
     FromImport("__future__", <<Alias("annotations", "")>>),
     Node("doc", ""),
     Stmt("assign", "x", "")}
        \cup {WithLead(n, l) : n \in {Def("tc", "", {}, <<ImportThing>>),
                                      Stmt("assign", "__version__", ""),
                                      Stmt("assign", "__all__", ""),
                                      Def("func", "f", {}, <<>>)},
                               l \in LayoutLeads}

LayoutInputs ==
    {SourceFile(TRUE, AsSeqFrom(b, 1, Len(b))) : b \in SeqsUpTo(LayoutItems, MaxTop)}

LayoutPasses == {"order_type_checking_block", "order_module_metadata", "order_module_functions"}

InitLayout ==
    /\ file \in LayoutInputs
    /\ enabled = LayoutPasses
    /\ InitCommon

NextLayout ==
    \/ RunOrderTypeCheckingBlock
    \/ RunOrderModuleMetadata
    \/ RunOrderModuleFunctions

SpecLayout == InitLayout /\ [][NextLayout]_vars

(***************************************************************************)
(* Input files of the constant sorting runs: one or two blocks of          *)
(* UPPER_CASE assignments, each with or without the flag comment above     *)
(* it, at module level or in a class body, the second block a blank line   *)
(* below the first.                                                        *)
(***************************************************************************)
ConstantNames == {<<"B", "A">>, <<"A", "B">>, <<"B", "A", "B">>}

ConstantBlock(names, lead) ==
    AsSeqFrom([i \in 1..Len(names) |->
                  WithLead(Stmt("assign", names[i], ""), IF i = 1 THEN lead ELSE <<>>)],
              1, Len(names))

FirstBlocks == {ConstantBlock(n, l) : n \in ConstantNames, l \in {<<>>, <<"flag">>}}

SecondBlocks ==
    {<<>>} \cup {ConstantBlock(n, l) : n \in ConstantNames, l \in {<<"blank">>, <<"blank", "flag">>}}

ConstantInputs ==
    {SourceFile(TRUE, p \o b1 \o b2) : p \in {<<>>, <<ImportThing>>}, b1 \in FirstBlocks, b2 \in SecondBlocks}
        \cup {SourceFile(TRUE, <<Def("class", "C", {}, p \o b1 \o b2)>>) :
                 p \in {<<>>, <<Stmt("assign", "x", "")>>}, b1 \in FirstBlocks, b2 \in SecondBlocks}

InitConstants ==
    /\ file \in ConstantInputs
    /\ enabled = {"order_constants"}
    /\ InitCommon

NextConstants == RunOrderConstants

SpecConstants == InitConstants /\ [][NextConstants]_vars

(***************************************************************************)
(* Input files of the class method ordering runs: one class whose body     *)
(* holds up to MaxMethods methods or attribute assignments, and the class  *)
(* of the documented example.                                              *)
(***************************************************************************)
MaxMethods == 3

Method(name, decorators, body) == Def("func", name, decorators, body)

Getter(name, body) == Method(name, {[how |-> "decorator", ref |-> "property"]}, body)

Setter(name) == Method(name, {[how |-> "setter", ref |-> name]}, <<>>)

MethodItems ==
    {Method("__init__", {}, <<>>),
     Method("__new__", {}, <<>>),
     Method("make", {[how |-> "decorator", ref |-> "classmethod"]}, <<>>),
     Method("util", {[how |-> "decorator", ref |-> "staticmethod"]}, <<>>),
     Getter("name", <<>>),
     Getter("name", <<Stmt("pass", "", "")>>),
     Setter("name"),
     Method("zeta", {}, <<>>),
     Method("alpha", {}, <<>>),
     Method("_a", {}, <<>>),
     Stmt("assign", "x", "")}

C13_Example ==
    SourceFile(TRUE, <<Def("class", "C", {},
        <<Method("zeta", {}, <<>>), Setter("name"), Method("alpha", {}, <<>>),
          Getter("name", <<>>), Method("__init__", {}, <<>>)>>)>>)

MethodInputs ==
    {SourceFile(TRUE, <<Def("class", "C", {}, AsSeqFrom(b, 1, Len(b)))>>) :
        b \in SeqsUpTo(MethodItems, MaxMethods)} \cup {C13_Example}

InitMethods ==
    /\ file \in MethodInputs
    /\ enabled = {"order_class_methods"}
    /\ InitCommon

NextMethods == RunOrderClassMethods

SpecMethods == InitMethods /\ [][NextMethods]_vars

(***************************************************************************)
(* Input files of the dataclass attribute ordering runs: one class         *)
(* decorated with `@dataclass` or `@dataclass(frozen=True)` whose body     *)
(* holds up to MaxAttrs annotated fields, with or without a default.       *)
(***************************************************************************)
DataclassDecorators ==
    {{[how |-> "decorator", ref |-> "dataclass"]}, {[how |-> "decorator_call", ref |-> "dataclass"]}}

FieldItems ==
    {WithLead(Stmt(how, n, ""), l) : how \in {"annvar", "annval"}, n \in {"a", "b"}, l \in {<<>>, <<"blank">>}}
        \cup {Stmt("assign", "c", "")}

DataclassInputs ==
    {SourceFile(TRUE, <<Def("class", "C", d, AsSeqFrom(b, 1, Len(b)))>>) :
        d \in DataclassDecorators, b \in SeqsUpTo(FieldItems, MaxAttrs)}

InitDataclass ==
    /\ file \in DataclassInputs
    /\ enabled = {"order_class_attributes"}
    /\ InitCommon

NextDataclass == RunOrderClassAttributes

SpecDataclass == InitDataclass /\ [][NextDataclass]_vars

(***************************************************************************)
(* Input files of the module class ordering runs: up to MaxTop top-level   *)
(* statements, the classes with or without a base class.                   *)
(***************************************************************************)
ClassNames == {"A", "B", "G"}

ClassItems ==
    {Def("class", n, IF b = "" THEN {} ELSE {[how |-> "base", ref |-> b]}, <<>>) :
        n \in ClassNames, b \in {""} \cup ClassNames}
        \cup {Stmt("assign", "x", ""), Node("main", ""), Def("func", "f", {}, <<>>)}

ClassInputs ==
    {SourceFile(TRUE, AsSeqFrom(b, 1, Len(b))) : b \in SeqsUpTo(ClassItems, MaxTop)}

InitClasses ==
    /\ file \in ClassInputs
    /\ enabled = {"order_module_classes"}
    /\ InitCommon

NextClasses == RunOrderModuleClasses

SpecClasses == InitClasses /\ [][NextClasses]_vars

(***************************************************************************)
(* Inputs of the import rewriter: one or two imported names, one of them   *)
(* possibly under an alias, with or without the import of TYPE_CHECKING    *)
(* and an existing guarded block holding a from-import or a bare import,   *)
(* and a function annotated with a name.                                   *)
(* The name sets handed to the rewriter leave TYPE_CHECKING out, and       *)
(* used_in_B is taken inside names_to_remove_from_module, where alone it   *)
(* is read.                                                                *)
(***************************************************************************)
ImportTypeChecking == FromImport("typing", <<Alias("TYPE_CHECKING", "")>>)

ImportZed == FromImport("lib", <<Alias("Zed", "")>>)

ImportThingAsT == FromImport("pkg", <<Alias("Thing", "T")>>)

RewriterHeaders == {<<ImportThing>>, <<ImportThing, ImportZed>>, <<ImportThingAsT>>}

GuardedBlocks ==
    {<<>>} \cup {<<Def("tc", "", {}, <<st>>)>> :
                    st \in {ImportThing, ImportZed, ImportThingAsT, BareImport(<<Alias("os", "")>>)}}

\* what precedes the imports: nothing, a module docstring, or a statement
RewriterPrefixes == {<<>>, <<Node("doc", "")>>, <<Stmt("assign", "x", "")>>}

RewriterBodies ==
    {p \o t \o h \o g \o <<Def("func", "f", {Hint("annparam", LocalName(h[1].aliases[1]))}, <<Pass>>)>> :
        p \in RewriterPrefixes, t \in {<<>>, <<ImportTypeChecking>>}, h \in RewriterHeaders,
        g \in GuardedBlocks}

\* at most two imported names beside TYPE_CHECKING
RewriterInputs ==
    {SourceFile(TRUE, b) :
        b \in {c \in RewriterBodies :
                  \A S \in SUBSET (DOMAIN PythonParserImportIndex(c) \ {"TYPE_CHECKING"}) :
                      Cardinality(S) <= 2}}

InitRewriter ==
    /\ file \in RewriterInputs
    /\ enabled = {}
    /\ InitCommon

NextRewriter == RunImportRewriter

SpecRewriter == InitRewriter /\ [][NextRewriter]_vars

(***************************************************************************)
(* Inputs with an aliased import, `from pkg import Thing as T`: T used in  *)
(* an annotation, in a function or in a nested function of the same name,  *)
(* with or without a guarded block; the whole relocation and the rewriter  *)
(* alone both act on them.                                                 *)
(***************************************************************************)
AliasFunctions ==
    {Def("func", "f", {Hint("annparam", "T")}, <<Pass>>),
     Def("func", "f", {}, <<Stmt("call", "", "T")>>),
     Def("func", "f", {}, <<Def("func", "f", {}, <<Stmt("call", "", "T")>>)>>),
     Def("func", "f", {}, <<Def("func", "f", {Hint("annret", "T")}, <<Stmt("call", "", "T")>>)>>)}

AliasInputs ==
    {SourceFile(TRUE, <<ImportThingAsT>> \o g \o <<fn>>) :
        g \in {<<>>, <<Def("tc", "", {}, <<ImportZed>>)>>}, fn \in AliasFunctions}

InitAliases ==
    /\ file \in AliasInputs
    /\ enabled = {"relocate_imports"}
    /\ InitCommon

NextAliases == RunRelocateImports \/ RunImportRewriter

SpecAliases == InitAliases /\ [][NextAliases]_vars

(***************************************************************************)
(* Input files that start with a __future__ import, after an optional      *)
(* module docstring, followed by up to two other statements.  Every pass   *)
(* that works on top-level statements acts on them.                        *)
(***************************************************************************)
FutureImport == FromImport("__future__", <<Alias("annotations", "")>>)

FutureItems ==
    {ImportThing,
     Def("tc", "", {}, <<ImportThing>>),
     Stmt("assign", "__version__", ""),
     WithLead(Def("func", "f", {Hint("annparam", "Thing")}, <<Pass>>), <<"blank">>),
     Def("func", "a", {}, <<Stmt("call", "", "Thing")>>),
     Def("class", "A", {}, <<Pass>>)}

FutureTails == {<<>>} \cup {<<x>> : x \in FutureItems} \cup {<<x, y>> : x \in FutureItems, y \in FutureItems}

FutureInputs ==
    {SourceFile(TRUE, d \o <<FutureImport>> \o t) : d \in {<<>>, <<Node("doc", "")>>}, t \in FutureTails}

InitFuture ==
    /\ file \in FutureInputs
    /\ enabled = {}
    /\ InitCommon

NextFuture ==
    \/ RunRemoveFutureImports
    \/ RunRelocateImports
    \/ RunImportRewriter
    \/ RunOrderTypeCheckingBlock
    \/ RunOrderModuleMetadata
    \/ RunOrderModuleFunctions
    \/ RunOrderModuleClasses

SpecFuture == InitFuture /\ [][NextFuture]_vars

(***************************************************************************)
(* Input files with one `if __name__ == "__main__":` guard among up to     *)
(* three top-level statements: imports, TYPE_CHECKING blocks, metadata,    *)
(* functions and classes on either side of the guard.                      *)
(***************************************************************************)
GuardItems ==
    {ImportThing, Def("tc", "", {}, <<ImportThing>>), Node("main", ""),
     Stmt("assign", "__version__", ""), Stmt("assign", "__all__", ""),
     Def("func", "f", {}, <<>>), Def("func", "a", {}, <<>>),
     Def("class", "B", {}, <<>>), Def("class", "A", {}, <<>>)}

GuardBodies ==
    {<<x>> : x \in GuardItems} \cup {<<x, y>> : x \in GuardItems, y \in GuardItems}
        \cup {<<x, y, z>> : x \in GuardItems, y \in GuardItems, z \in GuardItems}

GuardInputs ==
    {SourceFile(TRUE, b) : b \in {c \in GuardBodies : \E i \in 1..Len(c) : /\ c[i].kind = "main"
                                                                          /\ \A j \in 1..Len(c) : c[j].kind = "main" => j = i}}

GuardPasses == {"order_type_checking_block", "order_module_metadata", "order_module_functions", "order_module_classes"}

InitGuard ==
    /\ file \in GuardInputs
    /\ enabled = GuardPasses
    /\ InitCommon

NextGuard ==
    \/ RunOrderTypeCheckingBlock
    \/ RunOrderModuleMetadata
    \/ RunOrderModuleFunctions
    \/ RunOrderModuleClasses

SpecGuard == InitGuard /\ [][NextGuard]_vars

(***************************************************************************)
(* Input files of the spacing runs: up to three top-level statements       *)
(* (import, function, class with two methods), each below zero to MaxBlank *)
(* blank lines, with or without a comment line directly above it.          *)
(***************************************************************************)
MaxBlank == 3

BlankLines(k) == [i \in 1..k |-> "blank"]

SpacingLeads == UNION {{BlankLines(k), BlankLines(k) \o <<"comment">>} : k \in 0..MaxBlank}

SpacingItems ==
    {ImportThing, Def("func", "f", {}, <<Pass>>),
     Def("class", "A", {}, <<Def("func", "f", {}, <<Pass>>), WithLead(Def("func", "g", {}, <<Pass>>), BlankLines(MaxBlank))>>)}

SpacingStatements == {WithLead(n, l) : n \in SpacingItems, l \in SpacingLeads}

SpacingInputs ==
    {SourceFile(TRUE, b) : b \in {<<x>> : x \in SpacingStatements}
                                    \cup {<<x, y>> : x \in SpacingItems, y \in SpacingStatements}
                                    \cup {<<x, y, z>> : x \in SpacingItems, y \in SpacingStatements, z \in SpacingStatements}}

InitSpacing ==
    /\ file \in SpacingInputs
    /\ enabled = {"normalize_spacing"}
    /\ InitCommon

NextSpacing == RunNormalizeSpacing

SpecSpacing == InitSpacing /\ [][NextSpacing]_vars

(***************************************************************************)
(* Input texts of the iterable sorting runs: a list literal with the flag  *)
(* on its first line and up to MaxItems entry lines (items, comment lines, *)
(* a blank line, a second flag), closed by `]` and followed by one more    *)
(* statement; line feeds or carriage return + line feed, with or without   *)
(* a terminator on the last line.                                          *)
(***************************************************************************)
MaxItems == 3

IterableEntries ==
    {Line("item", 4, "a"), Line("item", 4, "B"), Line("item", 4, "c"),
     Line("comment", 4, "about a"), Line("comment", 4, "about c"),
     Line("blank", 0, ""), Line("flag", 4, "")}

RECURSIVE IterableEntryRuns(_)
IterableEntryRuns(n) ==
    IF n = 0 THEN {<<>>}
    ELSE LET shorter == IterableEntryRuns(n - 1)
         IN  shorter \cup {Append(r, e) : r \in {x \in shorter : Len(x) = n - 1}, e \in IterableEntries}

\* each line of the entry run occurs once
DistinctLines(r) == \A i, j \in 1..Len(r) : r[i] = r[j] /\ r[i].kind # "blank" => i = j

IterableLines ==
    {<<Line("code", 0, "x = ["), Line("flag", 4, "")>> \o r \o <<Line("close", 0, "]"), Line("code", 0, "y = 1")>> :
        r \in {x \in IterableEntryRuns(MaxItems) : DistinctLines(x)}}

Terminated(lines, end, last) ==
    AsSeqFrom([i \in 1..Len(lines) |-> [line |-> lines[i], end |-> IF i < Len(lines) THEN end ELSE last]],
              1, Len(lines))

IterableInputs ==
    UNION {{Terminated(l, end, end), Terminated(l, end, "")} : l \in IterableLines, end \in {"\n", "\r\n"}}

InitIterable ==
    /\ file \in IterableInputs
    /\ enabled = {"order_iterable_items"}
    /\ InitCommon

NextIterable == RunOrderIterableItems

SpecIterable == InitIterable /\ [][NextIterable]_vars

\* C1: applying the enabled options to the result of a previous application
\* changes nothing
C1_ApplyIdempotent == (lastOp = "python_option" /\ runs >= 2) => file = before

\* C8: on a text that does not parse the option returns the text unchanged,
\* proposes no write and raises nothing
C8_ParseFailureFailsOpen ==
    (lastOp = "python_option" /\ ~before.parses) => (file = before /\ ~proposed /\ ~raised)


(***************************************************************************)
(* Observations on a file for the import relocation properties.            *)
(***************************************************************************)
\* names bound by the import statements directly in a block
DirectImportNames(block) ==
    UNION {AliasLocalNames(block[i]) :
              i \in {k \in 1..Len(block) : block[k].kind \in {"from", "import"}}}

ModuleLevelImports(body) == DirectImportNames(body)

\* names imported inside the `if TYPE_CHECKING:` blocks of the module
GuardedImports(body) ==
    UNION {DirectImportNames(body[i].body) : i \in {k \in 1..Len(body) : body[k].kind = "tc"}}

Site(name, how, in_function, local) ==
    [name |-> name, how |-> how, in_function |-> in_function, local |-> local]

\* the places where a name is used, each with the names imported in the
\* functions that enclose it
RECURSIVE UsageSites(_, _, _)
UsageSites(body, in_function, local) ==
    IF body = <<>> THEN {}
    ELSE LET n == Head(body)
             here ==
                 CASE n.kind = "stmt" ->
                         IF n.ref = "" THEN {} ELSE {Site(n.ref, n.how, in_function, local)}
                   [] n.kind = "func" ->
                         {Site(u.ref, u.how, in_function, local) : u \in n.sig}
                             \cup UsageSites(n.body, TRUE, local \cup DirectImportNames(n.body))
                   [] n.kind = "class" ->
                         {Site(u.ref, u.how, in_function, local) : u \in n.sig}
                             \cup UsageSites(n.body, in_function, local)
                   [] n.kind \in {"tc", "main"} -> UsageSites(n.body, in_function, local)
                   [] OTHER -> {}
         IN  here \cup UsageSites(Tail(body), in_function, local)

AnnotationHows == {"annret", "annparam", "annvar", "caststr"}

\* the site finds a binding of its name
Resolves(s, body) ==
    \/ s.name \in ModuleLevelImports(body)
    \/ s.how \in AnnotationHows /\ s.name \in GuardedImports(body)
    \/ s.name \in s.local

\* number of from-imports of the name inside function bodies
RECURSIVE LocalImportCount(_, _, _)
LocalImportCount(body, name, in_function) ==
    IF body = <<>> THEN 0
    ELSE LET n == Head(body)
             here == IF n.kind = "from" /\ in_function /\ name \in AliasLocalNames(n)
                     THEN 1 ELSE 0
         IN  here + LocalImportCount(n.body, name, in_function \/ n.kind = "func")
                  + LocalImportCount(Tail(body), name, in_function)

Relocated == lastOp = "relocate_imports" /\ ~raised

\* C2: a second run of the import relocation on its own output changes nothing
C2_RelocateIdempotent == (lastOp = "relocate_imports" /\ runs >= 2) => file = before

\* C3: after relocation no usage site of a name that was imported at module
\* level is left without a binding: the name is still imported at module
\* level, or the site is an annotation and the guarded block imports the name,
\* or a function enclosing the site imports it
C3_UsageSitesResolve ==
    Relocated =>
        \A s \in UsageSites(file.body, FALSE, {}) :
            s.name \in ModuleLevelImports(before.body) => Resolves(s, file.body)

C3_Witness ==
    /\ Relocated
    /\ file # before
    /\ \E s \in UsageSites(file.body, FALSE, {}) :
          /\ s.in_function
          /\ s.how = "call"
          /\ s.name \in ModuleLevelImports(before.body)
          /\ s.name \in s.local

\* from-imported names of the module level used in parameter or return
\* annotations and nowhere else
AnnotationOnlyNames(body) ==
    LET sites == UsageSites(body, FALSE, {})
        idx == PythonParserImportIndex(body)
    IN  {n \in ModuleLevelImports(body) :
            /\ ResolvedModule(idx, n) # ""
            /\ \E s \in sites : s.name = n
            /\ \A s \in sites : s.name = n => s.how \in {"annret", "annparam"}}

\* C4: a from-imported name used only in parameter or return annotations is,
\* after relocation, imported in the TYPE_CHECKING block and no longer at
\* module level
C4_AnnotationOnlyGuarded ==
    (Relocated /\ runs = 1) =>
        \A n \in AnnotationOnlyNames(before.body) :
            n \in GuardedImports(file.body) /\ n \notin ModuleLevelImports(file.body)

C5_Example ==
    SourceFile(TRUE, <<ImportThing,
                       Def("func", "f", {Hint("annret", "Thing")}, <<Stmt("call", "", "Thing")>>)>>)

C5_Expected ==
    SourceFile(TRUE, <<Def("func", "f", {}, <<ImportThing, Stmt("call", "", "Thing")>>)>>)

\* C5: relocation turns `from pkg import Thing` / `def f() -> Thing: return
\* Thing()` into a module without the module-level import, f without return
\* annotation and with the import as first statement of its body, and a
\* second run changes nothing
C5_ExampleRelocated ==
    /\ (Relocated /\ runs = 1 /\ before = C5_Example) => file = C5_Expected
    /\ (Relocated /\ runs = 2 /\ before = C5_Expected) => file = before

\* names used as the type of a class-level attribute and called as a
\* constructor inside a function
ClassTypeAndConstructorNames(body) ==
    LET sites == UsageSites(body, FALSE, {})
        attribute_types == {n.ref : n \in {m \in UNION {SeqRange(body[i].body) :
                                 i \in {k \in 1..Len(body) : body[k].kind = "class"}} :
                                 m.kind = "stmt" /\ m.how \in {"annvar", "annval"}}}
    IN  {n \in attribute_types \cap ModuleLevelImports(body) :
            \E s \in sites : s.name = n /\ s.how = "call" /\ s.in_function}

\* C6: a name used as a class-level attribute type and as a constructor call
\* in a function keeps its module-level import and no import of it is added
\* to any function body
C6_ClassLevelStaysAtModule ==
    Relocated =>
        \A n \in ClassTypeAndConstructorNames(before.body) :
            /\ n \in ModuleLevelImports(file.body)
            /\ LocalImportCount(file.body, n, FALSE) = LocalImportCount(before.body, n, FALSE)

\* names bound by a bare import at module level
PinnedNames(body) ==
    {n \in ModuleLevelImports(body) : ResolvedModule(PythonParserImportIndex(body), n) = ""}

\* C7: a name bound by a bare import stays imported at module level, gains no
\* function-local import and is not added to the TYPE_CHECKING block
C7_PinnedStaysPut ==
    Relocated =>
        \A n \in PinnedNames(before.body) :
            /\ n \in ModuleLevelImports(file.body)
            /\ LocalImportCount(file.body, n, FALSE) = LocalImportCount(before.body, n, FALSE)
            /\ n \in GuardedImports(file.body) => n \in GuardedImports(before.body)

C7_Witness ==
    /\ Relocated
    /\ file # before
    /\ \E n \in PinnedNames(before.body) :
          /\ \E s \in UsageSites(before.body, FALSE, {}) :
                s.name = n /\ s.in_function /\ s.how = "cast"
          /\ n \in ModuleLevelImports(file.body)

FuncIndices(body) == {i \in 1..Len(body) : body[i].kind = "func"}

ClassIndices(body) == {i \in 1..Len(body) : body[i].kind = "class"}

FunctionsBeforeFirstClass(body) ==
    \A i \in FuncIndices(body), j \in ClassIndices(body) : i < j

\* public before private, case-insensitive alphabetical within each
FunctionOrderKey(n) ==
    <<IF IsPrivateName(n.name) THEN 1 ELSE 0, StrRank(Lower(n.name))>>

FunctionsInOrder(body) ==
    \A i, j \in FuncIndices(body) :
        i < j => KeyLeq(FunctionOrderKey(body[i]), FunctionOrderKey(body[j]))

OverloadGroupsTogether(body) ==
    \A i, j, k \in FuncIndices(body) :
        (i < k /\ k < j /\ body[i].name = body[j].name) => body[k].name = body[i].name

CompliantFunctions(body) ==
    /\ FuncIndices(body) # {}
    /\ FunctionsBeforeFirstClass(body)
    /\ FunctionsInOrder(body)
    /\ OverloadGroupsTogether(body)

Min(S) == CHOOSE x \in S : \A y \in S : x <= y

Max(S) == CHOOSE x \in S : \A y \in S : x >= y

FunctionsContiguous(body) ==
    \A i \in Min(FuncIndices(body))..Max(FuncIndices(body)) : body[i].kind = "func"

\* only declarations in front of the functions, a barrier (or nothing) behind them
FunctionsAtSlot(body) ==
    LET s == Min(FuncIndices(body))
        e == Max(FuncIndices(body))
    IN  /\ \A i \in 1..(s - 1) : ~IsFunctionBarrier(body[i], i)
        /\ e = Len(body) \/ IsFunctionBarrier(body[e + 1], s)

NoLeadInsideGroup(body) ==
    \A i \in FuncIndices(body) :
        (i > 1 /\ body[i - 1].kind = "func" /\ body[i - 1].name = body[i].name)
            => body[i].lead = <<>>

StrictlyCompliantFunctions(body) ==
    /\ CompliantFunctions(body)
    /\ FunctionsContiguous(body)
    /\ FunctionsAtSlot(body)
    /\ NoLeadInsideGroup(body)

C9_AttrOrderIdempotent ==
    (lastOp = "order_class_attributes" /\ runs >= 2) => (file = before)
(***************************************************************************)
(* Comment lines of a file.                                                *)
(***************************************************************************)
CommentLines(lead) == Cardinality({i \in 1..Len(lead) : lead[i] = "comment"})

RECURSIVE CommentCount(_)
CommentCount(body) ==
    IF body = <<>> THEN 0
    ELSE CommentLines(Head(body).lead) + CommentCount(Head(body).body)
             + CommentCount(Tail(body))

\* C11: every comment line of the input is still present in the output of the
\* module metadata grouping, the TYPE_CHECKING block placement and the
\* module function ordering
C11_CommentsPreserved ==
    (lastOp \in LayoutPasses /\ ~raised)
        => CommentCount(file.body) >= CommentCount(before.body)

(***************************************************************************)
(* Candidate constant blocks of a file: the maximal runs of UPPER_CASE     *)
(* assignments with no blank line inside, at module level and then in      *)
(* each class body.  A block is marked when the flag comment is above its  *)
(* first assignment.                                                       *)
(***************************************************************************)
IsConstantAssignment(n) == IsNameAssignment(n) /\ IsUpper(n.name)

RECURSIVE CandidateBlockEnd(_, _)
CandidateBlockEnd(body, j) ==
    IF j <= Len(body) /\ IsConstantAssignment(body[j]) /\ ~HasBlank(body[j].lead)
    THEN CandidateBlockEnd(body, j + 1)
    ELSE j

RECURSIVE CandidateBlocksFrom(_, _)
CandidateBlocksFrom(body, i) ==
    IF i > Len(body) THEN <<>>
    ELSE IF IsConstantAssignment(body[i])
         THEN LET j == CandidateBlockEnd(body, i + 1)
              IN  <<SubSeq(body, i, j - 1)>> \o CandidateBlocksFrom(body, j)
         ELSE CandidateBlocksFrom(body, i + 1)

RECURSIVE CandidateBlocksInClasses(_)
CandidateBlocksInClasses(body) ==
    IF body = <<>> THEN <<>>
    ELSE (IF Head(body).kind = "class" THEN CandidateBlocksFrom(Head(body).body, 1) ELSE <<>>)
             \o CandidateBlocksInClasses(Tail(body))

CandidateBlocks(body) == CandidateBlocksFrom(body, 1) \o CandidateBlocksInClasses(body)

IsMarkedBlock(block) == \E i \in 1..Len(block[1].lead) : block[1].lead[i] = "flag"

BlockNames(block) == AsSeqFrom([i \in 1..Len(block) |-> block[i].name], 1, Len(block))

\* C12: the flagged-constant sorting leaves every unmarked block of UPPER_CASE
\* assignments untouched and sorts every marked one, so of two identical
\* blocks, one marked and one not, exactly the marked one is sorted
C12_ExactlyMarkedBlocksSorted ==
    (lastOp = "order_constants" /\ ~raised) =>
        LET old == CandidateBlocks(before.body)
            new == CandidateBlocks(file.body)
        IN  /\ Len(new) = Len(old)
            /\ \A k \in 1..Len(old) :
                   IF IsMarkedBlock(old[k])
                   THEN Len(new[k]) = Len(old[k]) /\ NamesSorted(BlockNames(new[k]))
                   ELSE new[k] = old[k]

(***************************************************************************)
(* The documented order of the methods of a class: category, then the      *)
(* position in the special-method table, the accessor group and accessor   *)
(* kind, or the case-insensitive name and the private-prefix flag.         *)
(***************************************************************************)
MethodCategoryRank(m) ==
    CASE _classify_method(m) = "dunder" -> 0
      [] _classify_method(m) = "classmethod" -> 1
      [] _classify_method(m) = "staticmethod" -> 2
      [] _classify_method(m) = "property" -> 3
      [] OTHER -> 4

AccessorRank(kind) == CASE kind = "getter" -> 0 [] kind = "setter" -> 1 [] OTHER -> 2

DocumentedMethodKey(m) ==
    <<MethodCategoryRank(m)>> \o
        (CASE _classify_method(m) = "dunder" -> _DUNDER_ORDER(m.name)
           [] _classify_method(m) = "property" ->
                  <<StrRank(Lower(_property_kind(m).base)), AccessorRank(_property_kind(m).kind)>>
           [] OTHER -> SortKey(m.name))

MethodsOf(classdef) == SelectNodes(classdef.body, {n \in SeqRange(classdef.body) : n.kind = "func"})

MethodsInDocumentedOrder(classdef) ==
    LET ms == MethodsOf(classdef)
    IN  \A i \in 1..Len(ms) : \A j \in i..Len(ms) :
            KeyLeq(DocumentedMethodKey(ms[i]), DocumentedMethodKey(ms[j]))

C13_Expected ==
    SourceFile(TRUE, <<Def("class", "C", {},
        <<Method("__init__", {}, <<>>), Getter("name", <<>>), Setter("name"),
          Method("alpha", {}, <<>>), Method("zeta", {}, <<>>)>>)>>)

\* C13: after the class method ordering the methods of every class are in
\* category order (special methods, classmethods, staticmethods, accessor
\* groups with getter before setter before deleter, instance methods),
\* alphabetical within a category, and the documented example class becomes
\* constructor, `name` pair, alpha, zeta
C13_MethodsInCategoryOrder ==
    (lastOp = "order_class_methods" /\ ~raised) =>
        /\ \A i \in 1..Len(file.body) :
               file.body[i].kind = "class" => MethodsInDocumentedOrder(file.body[i])
        /\ before = C13_Example => file = C13_Expected

\* C14: import relocation is a function of the source text: every invocation
\* on the input of the last run yields the output of that run, the order of
\* the import statements injected for different origin modules included
C14_RelocateDeterministic ==
    (lastOp = "relocate_imports" /\ ~raised) =>
        \A descending \in BOOLEAN : RelocateImportsOption(before, descending).text = file

(***************************************************************************)
(* Fields of a data-class-style class.                                     *)
(***************************************************************************)
IsDataclassStyle(classdef) ==
    \E d \in classdef.sig : d.how \in {"decorator", "decorator_call"} /\ d.ref = "dataclass"

IsAnnotatedField(n) == n.kind = "stmt" /\ n.how \in {"annvar", "annval"}

RequiredBeforeDefaulted(nodes) ==
    \A i \in 1..Len(nodes) : \A j \in i..Len(nodes) :
        ~(/\ IsAnnotatedField(nodes[i]) /\ nodes[i].how = "annval"
          /\ IsAnnotatedField(nodes[j]) /\ nodes[j].how = "annvar")

\* C15: in a data-class-style class the attribute ordering leaves no block
\* in which a required field (no default) follows a defaulted field
C15_RequiredFieldsFirst ==
    (lastOp = "order_class_attributes" /\ ~raised) =>
        \A c \in 1..Len(before.body) :
            (before.body[c].kind = "class" /\ IsDataclassStyle(before.body[c])) =>
                LET blocks == find_attribute_blocks_in_class(before.body[c])
                IN  \A k \in 1..Len(blocks) :
                        RequiredBeforeDefaulted(
                            SubSeq(file.body[c].body, blocks[k][1], blocks[k][2] - 1))

(***************************************************************************)
(* Definition before use of base classes.                                  *)
(***************************************************************************)
BaseNames(classdef) == {d.ref : d \in {e \in classdef.sig : e.how = "base"}}

ClassPositions(body, name) == {i \in 1..Len(body) : body[i].kind = "class" /\ body[i].name = name}

BasesDefinedFirst(body) ==
    \A j \in 1..Len(body) :
        body[j].kind = "class" =>
            \A b \in BaseNames(body[j]) \ {body[j].name} :
                ClassPositions(body, b) # {} => \E i \in ClassPositions(body, b) : i < j

\* C16: after the module class ordering every class whose base list names
\* another class of the module is still defined after that base class
C16_BaseClassesStayFirst ==
    (lastOp = "order_module_classes" /\ ~raised /\ BasesDefinedFirst(before.body))
        => BasesDefinedFirst(file.body)

(***************************************************************************)
(* Observations on a run of the import rewriter.                           *)
(***************************************************************************)
Rewritten == lastOp = "import_rewriter" /\ ~raised

\* the first guarded block of the module, or no statements
FirstGuardedBlock(body) ==
    IF FirstIndexOfKind(body, "tc") = 0 THEN <<>> ELSE body[FirstIndexOfKind(body, "tc")].body

\* the names the rewriter wants in the guarded block, with their modules
WantedGuardedPairs(body, used_in_C_only) ==
    {<<ResolvedModule(PythonParserImportIndex(body), n), n>> :
        n \in {m \in used_in_C_only : ResolvedModule(PythonParserImportIndex(body), m) # "typing"}}

\* the local names of the module-level aliases the run decides to remove
RemovalsDecided(body, used_in_B, names_to_remove_from_module) ==
    UNION {AliasLocalNames(body[i]) \ AliasLocalNames([body[i] EXCEPT !.aliases =
                KeptAliases(body[i], FALSE, used_in_B, names_to_remove_from_module)]) :
              i \in {k \in 1..Len(body) : body[k].kind \in {"from", "import"}}}

GuardedBlockComplete ==
    /\ Rewritten
    /\ FirstIndexOfKind(before.body, "tc") # 0
    /\ WantedGuardedPairs(before.body, args.used_in_C_only)
           \subseteq DirectImportPairs(FirstGuardedBlock(before.body))

\* C17: when the guarded block already holds every import the rewriter wants
\* in it, the aliases the run decided to remove from module level are gone
\* from the module the rewriter returns
C17_RemovalsStillApplied ==
    GuardedBlockComplete =>
        \A n \in RemovalsDecided(before.body, args.used_in_B, args.names_to_remove_from_module) :
            n \notin ModuleLevelImports(file.body)

\* the aliases of the from-imports inside function bodies and guarded blocks
RECURSIVE RelocatedAliases(_, _)
RelocatedAliases(body, inside) ==
    IF body = <<>> THEN {}
    ELSE LET n == Head(body)
             here == IF n.kind = "from" /\ inside
                     THEN {[mod |-> n.name, alias |-> n.aliases[j]] : j \in 1..Len(n.aliases)}
                     ELSE {}
         IN  here \cup RelocatedAliases(n.body, inside \/ n.kind \in {"func", "tc"})
                  \cup RelocatedAliases(Tail(body), inside)

\* the module-level imports `from M import X as Y`
AliasedImports(body) ==
    UNION {{[mod |-> body[i].name, alias |-> body[i].aliases[j]] : j \in {k \in 1..Len(body[i].aliases) : body[i].aliases[k].asname # ""}} : i \in {k \in 1..Len(body) : body[k].kind = "from"}}

\* C18: an import placed by the run in a function body or in the guarded
\* block for a name Y bound at module level by `from M import X as Y` is
\* again `from M import X as Y`
C18_AliasKept ==
    (lastOp \in {"relocate_imports", "import_rewriter"} /\ ~raised) =>
        \A r \in RelocatedAliases(file.body, FALSE) \ RelocatedAliases(before.body, FALSE) :
            \A o \in AliasedImports(before.body) :
                (r.mod = o.mod /\ LocalName(r.alias) = LocalName(o.alias)) => r.alias = o.alias

\* the functions defined inside another function
RECURSIVE NestedFunctions(_, _)
NestedFunctions(body, in_function) ==
    IF body = <<>> THEN {}
    ELSE LET n == Head(body)
             here == IF n.kind = "func" /\ in_function THEN {n} ELSE {}
         IN  here \cup NestedFunctions(n.body, in_function \/ n.kind = "func")
                  \cup NestedFunctions(Tail(body), in_function)

\* the runtime-local names called directly in the body of a function
NeededIn(fn, runtime_local) ==
    {fn.body[i].ref : i \in {k \in 1..Len(fn.body) : fn.body[k].kind = "stmt" /\ fn.body[k].how = "call"}}
        \cap runtime_local

RuntimeLocalNames(body) ==
    {n \in RuntimeLocalFinal(PythonUsageCollector(PythonParserImportIndex(body), body)) :
        ResolvedModule(PythonParserImportIndex(body), n) \notin {"", "typing"}}

\* C19: after relocation a nested function that calls a runtime-local name
\* imports that name in its own body, whatever its enclosing and inner
\* functions import
C19_InjectedInNestedFunction ==
    Relocated =>
        \A fn \in NestedFunctions(file.body, FALSE) :
            NeededIn(fn, RuntimeLocalNames(before.body)) \subseteq DirectImportNames(fn.body)

\* the names in the type operand of a cast call anywhere in the module
CastTypeNames(body) ==
    {s.name : s \in {u \in UsageSites(body, FALSE, {}) : u.how \in {"cast", "caststr"}}}

\* the names in parameter and return annotations
SignatureAnnotationNames(body) ==
    {s.name : s \in {u \in UsageSites(body, FALSE, {}) : u.how \in {"annparam", "annret"}}}

FutureIndices(body) == {i \in 1..Len(body) : body[i].kind = "from" /\ body[i].name = "__future__"}

OtherImportIndices(body) ==
    {i \in 1..Len(body) : body[i].kind \in {"from", "import"}} \ FutureIndices(body)

\* the __future__ imports, in order, without their leading lines
FutureBlock(body) ==
    LET at == SelectNodes(AsSeqFrom([i \in 1..Len(body) |-> i], 1, Len(body)), FutureIndices(body))
    IN  AsSeqFrom([k \in 1..Len(at) |-> [body[at[k]] EXCEPT !.lead = <<>>]], 1, Len(at))

FutureNames(body) == UNION {AliasLocalNames(body[i]) : i \in FutureIndices(body)}

\* C21: the leading `from __future__ import ...` block is not indexed, and in
\* the output of every pass it is still present, unchanged, and precedes
\* every other import statement
C21_FutureBlockStays ==
    (lastOp # "" /\ ~raised) =>
        /\ FutureNames(before.body) \cap DOMAIN PythonParserImportIndex(before.body) = {}
        /\ FutureBlock(file.body) = FutureBlock(before.body)
        /\ \A i \in FutureIndices(file.body), j \in OtherImportIndices(file.body) : i < j

(***************************************************************************)
(* Observations on the reordering passes: the statements a pass moves as   *)
(* one block, and the `if __name__ == "__main__":` guards.                 *)
(***************************************************************************)
MainGuardIndices(body) == {i \in 1..Len(body) : body[i].kind = "main"}

BlockIndices(body, pass) ==
    CASE pass = "order_module_functions" -> {i \in 1..Len(body) : body[i].kind = "func"}
      [] pass = "order_module_classes" -> {i \in 1..Len(body) : body[i].kind = "class"}
      [] pass = "order_type_checking_block" -> {i \in 1..Len(body) : body[i].kind = "tc"}
      [] pass = "order_module_metadata" ->
            {i \in 1..Len(body) : body[i].kind = "stmt" /\ body[i].name \in {"__version__", "__all__"}}
      [] OTHER -> {}

Reinserted == lastOp \in GuardPasses /\ ~raised /\ file # before

\* C22: when a reordering pass has reinserted its block, the top-level
\* `if __name__ == "__main__":` guard comes after every statement of the block
C22_MainGuardAfterBlock ==
    Reinserted =>
        \A g \in MainGuardIndices(file.body), i \in BlockIndices(file.body, lastOp) : i < g

\* the statements of a kind the pass does not move, leading lines aside
NonMoved(body, pass) ==
    LET keep == SelectNodes(AsSeqFrom([i \in 1..Len(body) |-> i], 1, Len(body)), (1..Len(body)) \ BlockIndices(body, pass))
    IN  AsSeqFrom([k \in 1..Len(keep) |-> [body[keep[k]] EXCEPT !.lead = <<>>]], 1, Len(keep))

\* C23: the module function ordering and the module class ordering put the
\* sorted block back where the first function (first class) of the input
\* was, as one run, and leave the other statements in their order
C23_BlockAtFirstOccurrence ==
    (lastOp \in {"order_module_functions", "order_module_classes"} /\ ~raised
        /\ BlockIndices(before.body, lastOp) # {}) =>
            /\ NonMoved(file.body, lastOp) = NonMoved(before.body, lastOp)
            /\ IsContiguous(BlockIndices(file.body, lastOp))
            /\ FirstIndex(BlockIndices(file.body, lastOp)) = FirstIndex(BlockIndices(before.body, lastOp))

\* how many times the method definition occurs in the class body
Occurrences(classdef, m) == Cardinality({k \in 1..Len(classdef.body) : classdef.body[k] = m})

SameMethods(c, d) ==
    \A m \in SeqRange(MethodsOf(c)) \cup SeqRange(MethodsOf(d)) : Occurrences(c, m) = Occurrences(d, m)

\* C24: the class method ordering outputs a permutation of the methods of
\* every class: each method definition of the input class body occurs in the
\* output as many times as in the input
C24_MethodsPermuted ==
    (lastOp = "order_class_methods" /\ ~raised) =>
        /\ Len(file.body) = Len(before.body)
        /\ \A i \in 1..Len(before.body) :
              before.body[i].kind = "class" => SameMethods(before.body[i], file.body[i])

\* the statements the run added at the end of the first guarded block
AppendedToBlock ==
    Slice(FirstGuardedBlock(file.body), Len(FirstGuardedBlock(before.body)) + 1,
          Len(FirstGuardedBlock(file.body)))

\* C25: when a guarded block exists, the rewriter leaves its statements as
\* they are and in place, and appends only imports of wanted (module, name)
\* pairs the block does not hold yet
C25_BlockOnlyExtended ==
    (Rewritten /\ FirstIndexOfKind(before.body, "tc") # 0) =>
        /\ Len(FirstGuardedBlock(file.body)) >= Len(FirstGuardedBlock(before.body))
        /\ Slice(FirstGuardedBlock(file.body), 1, Len(FirstGuardedBlock(before.body)))
               = FirstGuardedBlock(before.body)
        /\ DirectImportPairs(AppendedToBlock)
               \subseteq (WantedGuardedPairs(before.body, args.used_in_C_only)
                             \ DirectImportPairs(FirstGuardedBlock(before.body)))

\* the module-level statements that are not imports, the guarded blocks aside
NonImports(body) == SelectNodes(body, {n \in SeqRange(body) : n.kind \notin {"from", "import", "tc"}})

BlockCreated ==
    /\ Rewritten
    /\ FirstIndexOfKind(before.body, "tc") = 0
    /\ FirstIndexOfKind(file.body, "tc") # 0

BlankLinesAbove(n) == Cardinality({i \in 1..Len(n.lead) : n.lead[i] = "blank"})

CommentAbove(n) == \E i \in 1..Len(n.lead) : n.lead[i] = "comment"

\* C27: after the spacing pass, a top-level class or function that follows
\* another statement with no comment line in between stands below at most
\* two blank lines
C27_AtMostTwoBlankLines ==
    (lastOp = "normalize_spacing" /\ ~raised) =>
        \A i \in 2..Len(file.body) :
            (file.body[i].kind \in {"class", "func"} /\ ~CommentAbove(file.body[i]))
                => BlankLinesAbove(file.body[i]) <= 2

\* the lines of a flagged block: those below the flag line, up to the first
\* blank line or closing bracket
RECURSIVE FlaggedBlockEnd(_, _)
FlaggedBlockEnd(lines, i) ==
    IF i > Len(lines) \/ lines[i].kind \in {"blank", "close"} THEN i ELSE FlaggedBlockEnd(lines, i + 1)

FlaggedBlock(lines, flag_idx) == (flag_idx + 1)..(FlaggedBlockEnd(lines, flag_idx + 1) - 1)

\* the item a comment line of a block stands above: the first line below it
\* that is no comment, <<>> when the block ends before one
RECURSIVE ItemBelow(_, _, _)
ItemBelow(lines, block, i) ==
    IF ~(i \in block) THEN <<>>
    ELSE IF lines[i].kind = "comment" THEN ItemBelow(lines, block, i + 1)
    ELSE <<lines[i]>>

\* C28: after the sorting of a file with one flagged block, every comment
\* line of the block stands above the item it stood above before, and the
\* items of the whole block, those below its comment lines included, are in
\* the order of their keys
C28_CommentsMoveWithItems ==
    (lastOp = "order_iterable_items" /\ FindFlagLineIndices(SplitLines(before)) = {2}) =>
        LET old == SplitLines(before)
            new == SplitLines(file)
            old_block == FlaggedBlock(old, 2)
            new_block == FlaggedBlock(new, 2)
        IN  /\ \A i \in old_block :
                   (old[i].kind = "comment" /\ ItemBelow(old, old_block, i) # <<>>) =>
                       \E j \in new_block : new[j] = old[i] /\ ItemBelow(new, new_block, j) = ItemBelow(old, old_block, i)
            /\ \A i, j \in new_block :
                   (i < j /\ new[i].kind = "item" /\ new[j].kind = "item") =>
                       ~StrLess(Lower(new[j].text), Lower(new[i].text))

\* C29: the sorting leaves the number of lines, every line terminator (the
\* one of the last line included) and every line outside the flagged blocks
\* as they were
C29_OutsideUntouched ==
    lastOp = "order_iterable_items" =>
        LET old == SplitLines(before)
            flagged == UNION {FlaggedBlock(old, f) : f \in FindFlagLineIndices(old)}
        IN  /\ Len(file) = Len(before)
            /\ \A i \in 1..Len(before) :
                   /\ file[i].end = before[i].end
                   /\ ~(i \in flagged) => file[i].line = before[i].line

\* for every function definition of a body, the key under which the usage
\* collector records the function's runtime-local names (visit_FunctionDef:
\* the qualified name it pushes on its function stack) and the key the
\* injector looks up when it leaves the function (leave_FunctionDef: its
\* stack of plain names still holds the function's own name)
RECURSIVE FunctionQualifiers(_, _, _, _)
FunctionQualifiers(body, class_stack, collector_stack, injector_stack) ==
    UNION {LET n == body[i]
           IN  CASE n.kind = "func" ->
                      LET recorded == QualifiedFuncName(class_stack, collector_stack, n.name)
                          inner == Append(injector_stack, n.name)
                      IN  {[recorded |-> recorded, looked_up |-> class_stack \o inner \o <<n.name>>]}
                              \cup FunctionQualifiers(n.body, class_stack,
                                                      Append(collector_stack, recorded), inner)
                 [] n.kind = "class" ->
                      FunctionQualifiers(n.body, Append(class_stack, n.name), collector_stack,
                                         injector_stack)
                 [] n.kind \in {"tc", "main"} ->
                      FunctionQualifiers(n.body, class_stack, collector_stack, injector_stack)
                 [] OTHER -> {}
           : i \in 1..Len(body)}

\* C30: for every function definition of a relocated file (top-level
\* function, method, nested function), the qualifier under which the usage
\* collector records its runtime-local names is the qualifier the injector
\* looks up
C30_QualifiersAgree ==
    (lastOp = "relocate_imports" /\ ~raised) =>
        \A q \in FunctionQualifiers(before.body, <<>>, <<>>, <<>>) : q.recorded = q.looked_up

====
